---- MODULE Spec2Model ----
(***************************************************************************)
(* Jarvis V7.0 orchestrator: the driver loop of main.py                    *)
(* (run_main_loop / run_graph_with_safety) around the LangGraph workflow   *)
(* built by core/graph/builder.py (chatbot -> tools -> state_updater ->    *)
(* chatbot, interrupt before tools, one checkpointed thread), the          *)
(* role-based model factory of core/llm_provider.py, the tool executor and *)
(* the tool registry of core/tools, and AudioHandler.speak of              *)
(* services/io_service.py.                                                 *)
(***************************************************************************)
EXTENDS Integers, Sequences, FiniteSets, TLC

\* ------------------------------------------------------------------ bounds
\* Total number of LLM invocations in a behaviour.
MaxLLMCalls == 3
\* Total number of tool calls the LLM emits in a behaviour.
MaxToolCalls == 2
\* Largest batch of tool calls in one assistant message.
MaxCalls == 2
\* ToolExecutor.run calls on one executor
MaxRuns == 2
\* AudioHandler.speak calls, and the polls of the callback that answer false
\* during one of them
MaxSpeaks == 2
MaxPolls == 3

\* calls of ManagerAgent.run
MaxTurns == 3

\* ------------------------------------------------------- program constants
MAX_HISTORY_MESSAGES == 30
StateUpdaterLookback == 5
DriverLookback == 3

\* ToolExecutor.__init__: max_history
max_history == 100

\* ManagerAgent.max_history: the turns its history keeps
ManagerMaxHistory == 10

\* RoleType of core/llm_provider.py, the keys of Config.LLM_ROLES.
Roles == {"default", "smart", "coder", "fast", "vision"}

\* The -r/--role values the driver is started with in this model.
StartRoles == {"default", "smart"}

\* ------------------------------------------------------------- tool registry
SafeToolNames ==
  {"switch_role", "system_control", "memory_operation", "knowledge_query",
   "vision_analyze"}

DangerousToolNames ==
  {"file_operation", "shell_execute", "python_interpreter", "browser_navigate",
   "knowledge_ingest"}

NATIVE_TOOLS == SafeToolNames \cup DangerousToolNames

\* The registry lookup: the tool, or "None" for a name that is not registered.
get_tool_by_name(name) == IF name \in NATIVE_TOOLS THEN name ELSE "None"

get_tool_risk_level(tool) ==
  IF tool \in DangerousToolNames THEN "dangerous" ELSE "safe"

RECURSIVE DangerousIn(_)
DangerousIn(tool_calls) ==
  IF tool_calls = <<>> THEN <<>>
  ELSE LET call == Head(tool_calls)
           tool == get_tool_by_name(call.name)
           rest == DangerousIn(Tail(tool_calls))
       IN  IF tool = "None" THEN <<call.name>> \o rest
           ELSE IF get_tool_risk_level(tool) = "dangerous" THEN <<call.name>> \o rest
           ELSE rest

\* A mutated safety check: a name missing from the registry is not reported.
RECURSIVE DangerousInSkippingUnknown(_)
DangerousInSkippingUnknown(tool_calls) ==
  IF tool_calls = <<>> THEN <<>>
  ELSE LET call == Head(tool_calls)
           tool == get_tool_by_name(call.name)
           rest == DangerousInSkippingUnknown(Tail(tool_calls))
       IN  IF tool # "None" /\ get_tool_risk_level(tool) = "dangerous"
           THEN <<call.name>> \o rest
           ELSE rest

\* A mutated safety check that classifies a batch by its first call only.
CheckSafetyFirstCallOnly(tool_calls) ==
  Len(DangerousIn(SubSeq(tool_calls, 1, 1))) = 0

CheckSafetySkippingUnknown(tool_calls) ==
  Len(DangerousInSkippingUnknown(tool_calls)) = 0

\* all_safe of check_tool_calls_safety: no dangerous or unknown name in the batch.
check_tool_calls_safety(tool_calls) == Len(DangerousIn(tool_calls)) = 0

\* ------------------------------------------------------------------ messages
\* marker is the role named by the first line of the content that starts with
\* ROLE_SWITCH_MARKER ("none": the content has no such line).
Msg(id, kind, calls, tcid, name, text, marker) ==
  [id |-> id, kind |-> kind, calls |-> calls, tcid |-> tcid, name |-> name,
   text |-> text, marker |-> marker]

HumanMessage(id) == Msg(id, "human", <<>>, 0, "", "user", "none")

\* SystemMessage(content=get_system_prompt(mode, role)): the prompt text is the
\* voice prompt for mode "voice" and the text prompt otherwise.
get_system_prompt(mode, role) ==
  IF mode = "voice" THEN "voice_prompt" ELSE "text_prompt"

SystemMessage(role, mode) ==
  Msg(0, "system", <<>>, 0, "", get_system_prompt(mode, role), "none")

AIMessage(id, calls, text, marker) == Msg(id, "ai", calls, 0, "", text, marker)

ToolMessage(id, tcid, name, text, marker) ==
  Msg(id, "tool", <<>>, tcid, name, text, marker)

HasToolCalls(m) == m.kind = "ai" /\ Len(m.calls) > 0

\* The add_messages reducer of AgentState.messages: an incoming message whose id
\* is in the log replaces it in place, every other one goes to the tail.
\* A reducer that ignores ids: every incoming message goes to the tail.
AppendAlways(left, right) == left \o right

\* A reducer that moves a replaced message to the tail of the log.
RECURSIVE ReplaceMovesToTail(_, _)
ReplaceMovesToTail(left, right) ==
  IF right = <<>> THEN left
  ELSE LET m == Head(right)
           kept == SelectSeq(left, LAMBDA x : x.id # m.id)
       IN  ReplaceMovesToTail(Append(kept, m), Tail(right))

RECURSIVE add_messages(_, _)
add_messages(left, right) ==
  IF right = <<>> THEN left
  ELSE LET m == Head(right)
           pos == {i \in 1..Len(left) : left[i].id = m.id}
           merged == IF pos # {}
                     THEN [left EXCEPT ![CHOOSE i \in pos : TRUE] = m]
                     ELSE Append(left, m)
       IN  add_messages(merged, Tail(right))

LastN(s, n) == IF Len(s) > n THEN SubSeq(s, Len(s) - n + 1, Len(s)) ELSE s

\* ------------------------------------------------------------ switch_role tool
\* ROLE_ALIASES restricted to the inputs this model draws.
resolve_role_alias(role_input) ==
  CASE role_input = "gemini" -> "vision"
    [] role_input = "gpt4"   -> "smart"
    [] OTHER                 -> role_input

get_available_roles == Roles

\* The text result of switch_role: [text, marker].
switch_role(role) ==
  LET canonical_role == resolve_role_alias(role)
  IN  IF canonical_role \notin get_available_roles
      THEN [text |-> "unknown_role", marker |-> "none"]
      ELSE [text |-> "switched", marker |-> canonical_role]

\* One call handled by the prebuilt ToolNode: the tool's result as a Tool
\* message named after the call; an unregistered name yields an error message.
RunToolCall(call, id) ==
  IF get_tool_by_name(call.name) = "None"
  THEN ToolMessage(id, call.id, call.name, "not_valid_tool", "none")
  ELSE IF call.name = "switch_role"
  THEN LET r == switch_role(call.arg)
       IN  ToolMessage(id, call.id, call.name, r.text, r.marker)
  ELSE ToolMessage(id, call.id, call.name, "result", "none")

\* The ToolNode output: one Tool message per call, in the declared order.
ToolNodeOutput(calls, firstId) ==
  [k \in 1..Len(calls) |-> RunToolCall(calls[k], firstId + k - 1)]

\* create_rejection_messages with one call dropped: only the first call answered.
RejectFirstOnly(tool_calls, firstId) ==
  [k \in 1..1 |->
     ToolMessage(firstId + k - 1, tool_calls[k].id, tool_calls[k].name,
                 "rejected", "none")]

create_rejection_messages(tool_calls, firstId) ==
  [k \in 1..Len(tool_calls) |->
     ToolMessage(firstId + k - 1, tool_calls[k].id, tool_calls[k].name,
                 "rejected", "none")]

\* --------------------------------------------------------------- state_updater
\* The most recent message named switch_role among `recent`, scanned from the
\* end: its marker, or "none" when there is no such message or it has no marker.
RECURSIVE FindSwitch(_, _)
FindSwitch(recent, i) ==
  IF i = 0 THEN "none"
  ELSE IF recent[i].name = "switch_role" THEN recent[i].marker
  ELSE FindSwitch(recent, i - 1)

\* A state_updater that looks back as far as the driver does.
StateUpdaterLookingBackThree(messages, current_role) ==
  LET recent == LastN(messages, DriverLookback)
      new_role == FindSwitch(recent, Len(recent))
  IN  IF new_role # "none" /\ new_role # "" /\ new_role # current_role
      THEN new_role
      ELSE current_role

\* The value of current_role after state_updater_node.
state_updater_node(messages, current_role) ==
  LET recent == LastN(messages, StateUpdaterLookback)
      new_role == FindSwitch(recent, Len(recent))
  IN  IF new_role # "none" /\ new_role # "" /\ new_role # current_role
      THEN new_role
      ELSE current_role

\* ------------------------------------------------------------------- sanitiser
CallIds(m) == {m.calls[k].id : k \in 1..Len(m.calls)}

\* The inner while loop: the first index from j on that is not a Tool message
\* answering one of ids.
RECURSIVE ScanEnd(_, _, _)
ScanEnd(messages, j, ids) ==
  IF j <= Len(messages) /\ messages[j].kind = "tool" /\ messages[j].tcid \in ids
  THEN ScanEnd(messages, j + 1, ids)
  ELSE j

RECURSIVE SanitizeFrom(_, _)
SanitizeFrom(messages, i) ==
  IF i > Len(messages) THEN <<>>
  ELSE LET msg == messages[i] IN
    IF HasToolCalls(msg)
    THEN LET tool_call_ids == CallIds(msg)
             j == ScanEnd(messages, i + 1, tool_call_ids)
             found_tool_messages == SubSeq(messages, i + 1, j - 1)
             found_ids == {found_tool_messages[k].tcid :
                             k \in 1..Len(found_tool_messages)}
         IN  IF found_ids = tool_call_ids /\ Cardinality(found_ids) > 0
             THEN <<msg>> \o found_tool_messages \o SanitizeFrom(messages, j)
             ELSE (IF msg.text # ""
                   THEN <<AIMessage(0, <<>>, msg.text, msg.marker)>>
                   ELSE <<>>)
                  \o SanitizeFrom(messages, IF j > i + 1 THEN j ELSE i + 1)
    ELSE <<msg>> \o SanitizeFrom(messages, i + 1)

RECURSIVE DropTrailingTools(_)
DropTrailingTools(sanitized) ==
  IF sanitized # <<>> /\ sanitized[Len(sanitized)].kind = "tool"
  THEN DropTrailingTools(SubSeq(sanitized, 1, Len(sanitized) - 1))
  ELSE sanitized

\* The sanitiser without its final loop: trailing Tool messages are kept.
SanitizeKeepingTrailingTools(messages) ==
  IF messages = <<>> THEN messages ELSE SanitizeFrom(messages, 1)

sanitize_messages_for_gemini(messages) ==
  IF messages = <<>> THEN messages
  ELSE DropTrailingTools(SanitizeFrom(messages, 1))

\* --------------------------------------------------------------------- chatbot
\* "gemini" in the model name of the role's chat model, under the default
\* Config.LLM_ROLES: only the vision role is configured with a Gemini model.
ModelNameHasGemini(role_str) == role_str = "vision"

IsStrictProvider(role_str) ==
  role_str \in {"vision", "smart"} \/ ModelNameHasGemini(role_str)

FilterSystem(messages) == SelectSeq(messages, LAMBDA m : m.kind # "system")

Truncate(filtered_messages) ==
  IF Len(filtered_messages) > MAX_HISTORY_MESSAGES
  THEN LastN(filtered_messages, MAX_HISTORY_MESSAGES)
  ELSE filtered_messages

\* messages_to_send of chatbot_node.
MessagesToSend(messages, role_str, mode) ==
  LET filtered == Truncate(FilterSystem(messages))
      cleaned == IF IsStrictProvider(role_str)
                 THEN sanitize_messages_for_gemini(filtered)
                 ELSE filtered
  IN  <<SystemMessage(role_str, mode)>> \o cleaned

\* A chatbot that returns the prompt it built together with the response.
ChatbotDeltaWithPrompt(sent, response_msg) == <<sent[1], response_msg>>

\* The state delta of chatbot_node: {"messages": [response]}.
ChatbotDelta(sent, response_msg) == <<response_msg>>

\* The reply of chatbot_node when ainvoke raises.
LLMFailureMessage(id) == AIMessage(id, <<>>, "llm_failed", "none")

\* A chatbot without the empty-response check: the empty reply itself is stored.
EmptyResponsePassedThrough(id) == AIMessage(id, <<>>, "", "none")

\* The reply of chatbot_node when the response has no content and no tool calls.
EmptyResponseMessage(id) == AIMessage(id, <<>>, "empty_response", "none")

\* A conditional edge that always ends the run.
ToolsConditionAlwaysEnd(messages) == "end"

\* tools_condition: "tools" when the last message is an assistant message with
\* tool calls, END otherwise.
tools_condition(messages) ==
  IF messages # <<>> /\ HasToolCalls(messages[Len(messages)])
  THEN "tools" ELSE "end"

\* A graph compiled without any interrupt.
NoInterrupt(interrupt_before_tools) == {}

\* compile_kwargs["interrupt_before"] of create_graph.
InterruptBefore(interrupt_before_tools) ==
  IF interrupt_before_tools THEN {"tools"} ELSE {}

\* ---------------------------------------------------------------------- driver
\* A driver loop that takes no stop of the stream for an interrupt.
NothingPending(graph_next, messages) == FALSE

\* run_graph_with_safety after the stream has stopped: the graph waits before
\* tools and the last message is an assistant message with tool calls.
InterruptPending(graph_next, messages) ==
  /\ graph_next = "tools"
  /\ messages # <<>>
  /\ HasToolCalls(messages[Len(messages)])

\* Step 1 of the driver's marker detection: the latest Tool message named
\* switch_role whose content carries the marker, among `recent`.
RECURSIVE DriverFindMarker(_, _)
DriverFindMarker(recent, i) ==
  IF i = 0 THEN "none"
  ELSE IF recent[i].kind = "tool" /\ recent[i].name = "switch_role"
          /\ recent[i].marker # "none"
  THEN recent[i].marker
  ELSE DriverFindMarker(recent, i - 1)

\* Step 2, the fallback: the first marker line of the streamed response text.
RECURSIVE ResponseMarker(_)
ResponseMarker(streamed) ==
  IF streamed = <<>> THEN "none"
  ELSE IF Head(streamed).marker # "none" THEN Head(streamed).marker
  ELSE ResponseMarker(Tail(streamed))

\* The driver's current_role after the turn.
DriverRoleAfterTurn(messages, streamed, current_role) ==
  LET recent == LastN(messages, DriverLookback)
      fromTools == DriverFindMarker(recent, Len(recent))
      new_role_candidate == IF fromTools # "none" THEN fromTools
                            ELSE ResponseMarker(streamed)
  IN  IF new_role_candidate # "none" /\ new_role_candidate # ""
         /\ new_role_candidate # current_role
      THEN new_role_candidate
      ELSE current_role

\* ------------------------------------------------------- driver: confirmation
\* A spoken response is the sequence of its words; `kw in response` holds when
\* one of the words is kw. confirm_keywords, romanised: queren, shi, zhixing,
\* hao, keyi, tongyi, yes, ok.
confirm_keywords ==
  {"queren", "shi", "zhixing", "hao", "keyi", "tongyi", "yes", "ok"}

\* voice_confirm_dangerous_tools on the response listen_func returned.
voice_confirm_dangerous_tools(response) ==
  IF response = <<>> THEN FALSE
  ELSE \E i \in 1..Len(response) : response[i] \in confirm_keywords

\* What the host says at the voice prompt in this model: nothing, "queren"
\* (confirm), "quxiao" (cancel), "bu keyi" (not allowed), "en" (a filler).
HostResponses ==
  {<<>>, <<"queren">>, <<"quxiao">>, <<"bu", "keyi">>, <<"en">>}

NotAsked == [asked |-> FALSE, response |-> <<>>]

Heard(response) == [asked |-> TRUE, response |-> response]

\* ------------------------------------------------------------ tools execution
\* The prebuilt ToolNode, run through astream_events, awaits asyncio.gather over
\* one coroutine per call; the tools are synchronous functions, so each
\* invocation runs on an executor thread. The invocations start in the declared
\* order and end in any order: the suffixes of a schedule of n calls once
\* `started` calls have started and the calls of `ended` have ended.
RECURSIVE GatherSchedules(_, _, _)
GatherSchedules(n, started, ended) ==
  IF started = n /\ ended = 1..n THEN {<<>>}
  ELSE (IF started < n
        THEN {<<[ev |-> "start", call |-> started + 1]>> \o t :
                t \in GatherSchedules(n, started + 1, ended)}
        ELSE {})
       \cup UNION {{<<[ev |-> "end", call |-> k]>> \o t :
                      t \in GatherSchedules(n, started, ended \cup {k})} :
                    k \in (1..started) \ ended}

\* ------------------------------------------------------------------ LLM factory
\* Config.LLM_ROLES restricted to three roles. A role's entry is absent
\* (present = FALSE) or holds provider, model, host, api_key and base_url; ""
\* stands for a value that is None or empty.
ConfigRoles == {"default", "coder", "vision"}

RoleEntry(provider, model, host, api_key, base_url) ==
  [present |-> TRUE, provider |-> provider, model |-> model, host |-> host,
   api_key |-> api_key, base_url |-> base_url]

AbsentEntry ==
  [present |-> FALSE, provider |-> "", model |-> "", host |-> "",
   api_key |-> "", base_url |-> ""]

\* The entries of Config.LLM_ROLES when no environment variable overrides the
\* defaults except the API keys.
LLM_ROLES ==
  [r \in ConfigRoles |->
     CASE r = "default" ->
            RoleEntry("openai", "gpt-3.5-turbo", "", "key_default",
                      "https://api.openai.com/v1")
       [] r = "coder" ->
            RoleEntry("ollama", "deepseek-coder:6.7b", "http://localhost:11434",
                      "key_default", "")
       [] r = "vision" ->
            RoleEntry("gemini", "gemini-1.5-flash", "", "key_gemini", "")]

\* The configurations the factory is exercised with: every role keeps its model
\* name; provider, host and api_key vary, and coder and vision may be absent.
DefaultEntries ==
  {RoleEntry("openai", "gpt-3.5-turbo", "", k, "https://api.openai.com/v1") :
     k \in {"", "key_default"}}
    \cup {RoleEntry("ollama", "llama3:8b", "http://localhost:11434", "", "")}

CoderEntries ==
  {AbsentEntry}
    \cup {RoleEntry(p, "deepseek-coder:6.7b", h, "key_default", u) :
            p \in {"ollama", "openai", ""},
            h \in {"", "http://localhost:11434"},
            u \in {"", "https://api.openai.com/v1"}}

VisionEntries ==
  {AbsentEntry}
    \cup {RoleEntry("gemini", "gemini-1.5-flash", "", k, "") :
            k \in {"", "key_gemini"}}

RoleConfigs ==
  {[r \in ConfigRoles |->
      CASE r = "default" -> d [] r = "coder" -> c [] r = "vision" -> v] :
     d \in DefaultEntries, c \in CoderEntries, v \in VisionEntries}

\* The role arguments LLMFactory.create is called with.
FactoryRoleInputs == {"default", "coder", "vision", "banana"}

\* _get_role_config: the entry of the role, or the default role's entry when the
\* role is not a key of LLM_ROLES or its entry is empty or has no provider.
get_role_config(roles, role) ==
  LET r == IF role \in ConfigRoles /\ roles[role].present THEN role ELSE "default"
      config == roles[r]
  IN  IF ~config.present \/ config.provider = "" THEN roles["default"] ELSE config

\* _resolve_provider.
resolve_provider(config) ==
  IF config.provider = "ollama"
  THEN (IF config.host = "" THEN "openai" ELSE "ollama")
  ELSE IF config.provider = "gemini"
  THEN (IF config.api_key = "" THEN "openai" ELSE "gemini")
  ELSE "openai"

\* LLMFactory.create: the class of the chat model built, and the model name,
\* endpoint and api key it is built with.
create(roles, role) ==
  LET config == get_role_config(roles, role)
      provider == resolve_provider(config)
  IN  CASE provider = "openai" ->
             [provider |-> "openai", model |-> config.model,
              endpoint |-> config.base_url, api_key |-> config.api_key]
        [] provider = "ollama" ->
             [provider |-> "ollama", model |-> config.model,
              endpoint |-> config.host, api_key |-> ""]
        [] provider = "gemini" ->
             [provider |-> "gemini", model |-> config.model,
              endpoint |-> "", api_key |-> config.api_key]

NoLLM == [role |-> "none", llm |-> create(LLM_ROLES, "default")]

\* --------------------------------------------------------------- tool executor
RiskLevel == {"safe", "moderate", "dangerous"}

ConfirmationResult == {"approved", "rejected", "timeout"}

\* What a call into the host's code raises: an exception that derives from
\* Exception, or one that derives from BaseException only (KeyboardInterrupt,
\* SystemExit).
Raised == {"Exception", "BaseException"}

\* The tools the executor is called with: name, risk level, and the fields the
\* InputSchema requires.
ExecutorTools ==
  {[name |-> "get_time", risk_level |-> "safe", required |-> {}],
   [name |-> "web_search", risk_level |-> "moderate", required |-> {"query"}],
   [name |-> "shell_execute", risk_level |-> "dangerous",
    required |-> {"command"}]}

\* params: the keys of the dictionary the caller passes.
ParamInputs == {{}, {"query"}, {"command"}}

NewStats ==
  [total_executions |-> 0, successful_executions |-> 0,
   failed_executions |-> 0, rejected_confirmations |-> 0]

ToolExecutor(require_confirmation_for, limit) ==
  [require_confirmation_for |->
     IF require_confirmation_for = {} THEN {"dangerous"}
     ELSE require_confirmation_for,
   max_history |-> limit,
   stats |-> NewStats,
   history |-> <<>>]

\* The max_history values an executor is constructed with.
HistoryLimits == {1, 2, max_history}

RequireInputs == {{}, {"dangerous"}, {"moderate", "dangerous"}}

\* A history that is never trimmed.
AddWithoutEviction(ex, log_entry) == Append(ex.history, log_entry)

add_to_history(ex, log_entry) ==
  LET appended == Append(ex.history, log_entry)
  IN  IF Len(appended) > ex.max_history THEN Tail(appended) ELSE appended

\* clear_history: the history is emptied, the statistics stay.
clear_history(ex) == [ex EXCEPT !.history = <<>>]

\* An executor whose outcome counters never move.
CountedNowhere(stats, counter) == stats

\* self._stats[counter] += 1
Counted(stats, counter) == [stats EXCEPT ![counter] = @ + 1]

\* BaseTool.validate_input: InputSchema.model_validate raises a ValidationError
\* when a required field is missing.
validate_input(tool, params) == tool.required \subseteq params

ToolResult(success, error, metadata) ==
  [success |-> success, error |-> error, metadata |-> metadata]

NoResult == ToolResult(TRUE, "", "none")

format_validation_error(tool) == <<"invalid parameters">>

format_exception_for_llm(exception, tool_name) ==
  <<tool_name, "execution failed", exception>>

\* tool.execute(validated_params) returning a ToolResult.
ExecuteResult(body) ==
  IF body = "success" THEN ToolResult(TRUE, "", "none")
  ELSE ToolResult(FALSE, <<"tool reported failure">>, "none")

ExecuteOutcomes == {"success", "failure"} \cup Raised

CallbackOutcomes == ConfirmationResult \cup Raised

\* An executor that stops only at an explicit rejection.
DeclinedOnlyWhenRejected(confirmation) == confirmation = "rejected"

\* run's test `confirmation != ConfirmationResult.APPROVED`.
ConfirmationDeclined(confirmation) == confirmation # "approved"

\* An executor without a handler.
CatchesNothing(exception) == FALSE

\* run's handler `except Exception`.
Catches(exception) == exception = "Exception"

\* An executor that passes the parameters on unvalidated.
ValidationSkipped(tool, params) == FALSE

\* run's inner try: tool.validate_input(params) raises.
ValidationFails(tool, params) == ~validate_input(tool, params)

LogEntry(tool, success, confirmation_result, error) ==
  [tool_name |-> tool.name, risk_level |-> tool.risk_level,
   success |-> success, confirmation_result |-> confirmation_result,
   error |-> error]

\* ToolExecutor.run(tool, params, skip_confirmation) on executor ex, where the
\* confirmation callback (if asked) does `callback` and tool.execute (if
\* called) does `body`. The outcome holds the executor afterwards, whether run
\* returned, the ToolResult returned, and which of the host's functions were
\* called.
run(ex, tool, params, skip_confirmation, callback, body) ==
  LET counted == [ex.stats EXCEPT !.total_executions = @ + 1]
      required ==
        ~skip_confirmation /\ tool.risk_level \in ex.require_confirmation_for
      confirmation == IF required THEN callback ELSE "none"
      \* entry: the log entries the run writes (none when it is left by an
      \* exception that is not caught)
      Outcome(stats, entry, returned, result, validated, executed) ==
        [executor |->
           [ex EXCEPT !.stats = stats,
                      !.history = IF entry = <<>> THEN ex.history
                                  ELSE add_to_history(ex, entry[1])],
         entry |-> entry,
         returned |-> returned, result |-> result, asked |-> required,
         validated |-> validated, executed |-> executed]
      Handled(exception, validated, executed) ==
        IF Catches(exception)
        THEN LET error == format_exception_for_llm(exception, tool.name)
             IN  Outcome(Counted(counted, "failed_executions"),
                         <<LogEntry(tool, FALSE, confirmation, error)>>,
                         TRUE, ToolResult(FALSE, error, exception),
                         validated, executed)
        ELSE Outcome(counted, <<>>, FALSE, NoResult, validated, executed)
  IN  IF required /\ callback \in Raised
        THEN Handled(callback, FALSE, FALSE)
      ELSE IF required /\ ConfirmationDeclined(callback)
        THEN Outcome(Counted(counted, "rejected_confirmations"),
                     <<LogEntry(tool, FALSE, callback, <<"User rejected">>)>>,
                     TRUE, ToolResult(FALSE, <<"operation cancelled">>, callback),
                     FALSE, FALSE)
      ELSE IF ValidationFails(tool, params)
        THEN Outcome(Counted(counted, "failed_executions"),
                     <<LogEntry(tool, FALSE, confirmation,
                                format_validation_error(tool))>>,
                     TRUE,
                     ToolResult(FALSE, format_validation_error(tool),
                                "validation"),
                     TRUE, FALSE)
      ELSE IF body \in Raised
        THEN Handled(body, TRUE, TRUE)
      ELSE LET result == ExecuteResult(body)
           IN  Outcome(IF result.success
                       THEN Counted(counted, "successful_executions")
                       ELSE Counted(counted, "failed_executions"),
                       <<LogEntry(tool, result.success, confirmation,
                                  result.error)>>,
                       TRUE, result, TRUE, TRUE)

NoRun ==
  [called |-> FALSE, op |-> "none", entry |-> <<>>, logged |-> <<>>,
   tool |-> [name |-> "none", risk_level |-> "safe", required |-> {}],
   params |-> {}, skip_confirmation |-> FALSE,
   callback |-> "none", body |-> "none", before |-> ToolExecutor({}, max_history),
   returned |-> TRUE, result |-> NoResult, asked |-> FALSE,
   validated |-> FALSE, executed |-> FALSE]

\* --------------------------------------------------------- ToolRegistry (core)
\* The tools the registry is given: name, risk level, tags. Two of them carry
\* the same name.
RegistryTools ==
  {[name |-> "get_time", risk_level |-> "safe", tags |-> {"utility", "time"}],
   [name |-> "get_time", risk_level |-> "moderate", tags |-> {"web"}],
   [name |-> "shell_execute", risk_level |-> "dangerous",
    tags |-> {"shell", "system"}]}

IntentInputs == {{}, {"time"}, {"time", "run"}}

\* A dictionary as a function; d[k] = v.
DictSet(d, k, v) == [x \in DOMAIN d \cup {k} |-> IF x = k THEN v ELSE d[x]]

DictDel(d, keys) == [x \in DOMAIN d \ keys |-> d[x]]

EmptyDict == [x \in {} |-> {}]

\* ToolRegistry.__init__
ToolRegistry ==
  [tools |-> EmptyDict,
   intent_map |-> EmptyDict,
   tag_index |-> EmptyDict,
   risk_index |-> [level \in RiskLevel |-> {}]]

\* A registry that never refuses a name.
RefusedNever(reg, tool, override) == FALSE

\* register's test `name in self._tools and not override`.
RegistrationRefused(reg, tool, override) ==
  tool.name \in DOMAIN reg.tools /\ ~override

\* ToolRegistry.register(tool, intents, override): the registry afterwards and
\* the exception raised, if any.
register(reg, tool, intents, override) ==
  IF RegistrationRefused(reg, tool, override)
  THEN [registry |-> reg, raised |-> "ToolRegistrationError"]
  ELSE [registry |->
          [tools |-> DictSet(reg.tools, tool.name, tool),
           risk_index |->
             [reg.risk_index EXCEPT ![tool.risk_level] = @ \cup {tool.name}],
           tag_index |->
             [tag \in DOMAIN reg.tag_index \cup tool.tags |->
                IF tag \in tool.tags
                THEN (IF tag \in DOMAIN reg.tag_index
                      THEN reg.tag_index[tag] ELSE {}) \cup {tool.name}
                ELSE reg.tag_index[tag]],
           intent_map |->
             [intent \in DOMAIN reg.intent_map \cup intents |->
                IF intent \in intents THEN tool.name
                ELSE reg.intent_map[intent]]],
        raised |-> "none"]

\* ToolRegistry.unregister(name): the registry afterwards and the value
\* returned.
unregister(reg, name) ==
  IF name \notin DOMAIN reg.tools
  THEN [registry |-> reg, returned |-> FALSE]
  ELSE LET tool == reg.tools[name]
       IN  [registry |->
              [tools |-> DictDel(reg.tools, {name}),
               risk_index |->
                 [reg.risk_index EXCEPT ![tool.risk_level] = @ \ {name}],
               tag_index |->
                 [tag \in DOMAIN reg.tag_index |-> reg.tag_index[tag] \ {name}],
               intent_map |->
                 DictDel(reg.intent_map,
                         {intent \in DOMAIN reg.intent_map :
                            reg.intent_map[intent] = name})],
            returned |-> TRUE]

\* ToolRegistry.get_by_risk(risk_level): the registered tools whose name is in
\* the risk index of the level.
get_by_risk(reg, risk_level) ==
  {reg.tools[name] : name \in reg.risk_index[risk_level] \cap DOMAIN reg.tools}

get_safe_tools(reg) == get_by_risk(reg, "safe")

\* ToolRegistry.clear(): the state of a new registry.
clear(reg) ==
  [tools |-> EmptyDict,
   intent_map |-> EmptyDict,
   tag_index |-> EmptyDict,
   risk_index |-> [level \in RiskLevel |-> {}]]

NoRegistryCall ==
  [op |-> "none", name |-> "none",
   tool |-> [name |-> "none", risk_level |-> "safe", tags |-> {}],
   intents |-> {},
   override |-> FALSE, before |-> ToolRegistry, raised |-> "none",
   returned |-> FALSE]

\* ------------------------------------------------------- AudioHandler.speak
\* pc: "idle" (not inside speak) or "playing" (inside the polling loop); busy:
\* pygame.mixer.music.get_busy(); file: output_file exists; callback: an
\* interrupt_check_callback was passed; polls: the callback's answers during
\* this call; result: what the latest call returned ("None": Python's None);
\* results: what the calls so far returned.
NoSpeech ==
  [pc |-> "idle", busy |-> FALSE, file |-> FALSE, callback |-> FALSE,
   polls |-> <<>>, calls |-> 0, result |-> "none", results |-> <<>>]

\* speak returns value.
SpeakReturn(sp, value) ==
  [sp EXCEPT !.pc = "idle", !.result = value, !.results = Append(@, value)]

\* What _generate_audio does: it saves the file, it returns without a file, or
\* it raises.
GenerateOutcomes == {"saved", "nothing", "raises"}

\* What the callback does when polled.
PollOutcomes == {"true", "false", "raises"}

\* ------------------------------------------------------------------ LLM inputs
\* The role arguments the LLM passes to switch_role in this model.
RoleArgs == {"gemini", "banana"}

\* The roles a marker line of the LLM's own text names in this model.
TextMarkers == {"none", "vision", "banana"}

LLMCallKinds ==
  {[name |-> "switch_role", arg |-> a] : a \in RoleArgs}
    \cup {[name |-> n, arg |-> ""] :
            n \in {"memory_operation", "file_operation", "ghost_tool"}}

Batches(n) == UNION {[1..k -> LLMCallKinds] : k \in 1..n}

Min(a, b) == IF a < b THEN a ELSE b

\* ------------------------------------------------------------ ManagerAgent
\* A text is the sequence of its characters. A Chinese character is written as
\* one token, its pinyin syllable: "bu" "yao" is the two-character text of
\* CONFIRM_NEGATIVE, "zhi" "xing" the two-character text of CONFIRM_POSITIVE.
CONFIRM_POSITIVE ==
  {<<"y", "e", "s">>, <<"y">>, <<"o", "k">>, <<"o", "k", "a", "y">>,
   <<"c", "o", "n", "f", "i", "r", "m">>, <<"d", "o", " ", "i", "t">>,
   <<"p", "r", "o", "c", "e", "e", "d">>,
   <<"g", "o", " ", "a", "h", "e", "a", "d">>,
   <<"que", "ren">>, <<"shi">>, <<"shi", "de">>, <<"hao">>, <<"hao", "de">>,
   <<"ke", "yi">>, <<"zhi", "xing">>, <<"mei", "wen", "ti">>, <<"xing">>,
   <<"dui">>}

CONFIRM_NEGATIVE ==
  {<<"n", "o">>, <<"n">>, <<"c", "a", "n", "c", "e", "l">>,
   <<"s", "t", "o", "p">>, <<"a", "b", "o", "r", "t">>,
   <<"d", "o", "n", "'", "t">>, <<"n", "o", "p", "e">>,
   <<"bu">>, <<"bu", "yao">>, <<"bie">>, <<"qu", "xiao">>, <<"suan", "le">>,
   <<"ting">>, <<"bu", "xing">>, <<"ju", "jue">>}

\* What the user says to the manager.
UserInputs ==
  {<<>>,
   <<"y", "e", "s">>,
   <<" ", "O", "K", " ">>,
   <<"n", "o">>,
   <<"n", "o", "p", "e">>,
   <<"n", "o", " ", "o", "k">>,
   <<"qu", "xiao">>,
   <<"bu", "yao", "zhi", "xing">>,
   <<"l", "s">>}

\* str.strip() for the blank
RECURSIVE lstrip(_)
lstrip(text) ==
  IF text # <<>> /\ Head(text) = " " THEN lstrip(Tail(text)) ELSE text

RECURSIVE rstrip(_)
rstrip(text) ==
  IF text # <<>> /\ text[Len(text)] = " "
  THEN rstrip(SubSeq(text, 1, Len(text) - 1)) ELSE text

strip(text) == lstrip(rstrip(text))

\* str.lower() on the capitals the inputs use
lower(text) ==
  [i \in 1..Len(text) |->
     CASE text[i] = "O" -> "o"
       [] text[i] = "K" -> "k"
       [] text[i] = "Y" -> "y"
       [] text[i] = "N" -> "n"
       [] OTHER -> text[i]]

\* `kw in normalized` for strings
Contains(kw, text) ==
  \E i \in 1..(Len(text) - Len(kw) + 1) :
    SubSeq(text, i, i + Len(kw) - 1) = kw

\* The containment rule of _check_confirmation_response.
ContainsKeyword(keywords, normalized) ==
  \E kw \in keywords :
    /\ Len(kw) >= 2
    /\ Contains(kw, normalized)
    /\ Len(normalized) <= Len(kw) + 4

\* _check_confirmation_response; "none" is Python's None.
check_confirmation_response(user_input) ==
  LET normalized == lower(strip(user_input))
  IN  IF normalized \in CONFIRM_POSITIVE THEN "confirmed"
      ELSE IF ContainsKeyword(CONFIRM_POSITIVE, normalized) THEN "confirmed"
      ELSE IF normalized \in CONFIRM_NEGATIVE THEN "rejected"
      ELSE IF ContainsKeyword(CONFIRM_NEGATIVE, normalized) THEN "rejected"
      ELSE "none"

\* The tools the registry of the manager holds, with the parameters
\* _adapt_params_for_tool builds for them.
ManagerTools ==
  {[name |-> "get_time", risk_level |-> "safe", required |-> {}],
   [name |-> "memory_tool", risk_level |-> "safe", required |-> {"action"}],
   [name |-> "shell_execute", risk_level |-> "dangerous", required |-> {}]}

NoTool == [name |-> "none", risk_level |-> "safe", required |-> {}]

\* The intents _identify_intent answers with.
Intents == {"chat", "time", "remember", "shell"}

\* INTENT_TO_TOOL_MAP.get(intent, intent)
INTENT_TO_TOOL_MAP(intent) ==
  CASE intent = "shell" -> "shell_execute"
    [] intent = "time" -> "get_time"
    [] intent = "remember" -> "memory_tool"
    [] OTHER -> intent

\* registry.get_by_intent: the tool of that name, NoTool for None.
ManagerLookup(intent) ==
  LET found == {tool \in ManagerTools : tool.name = INTENT_TO_TOOL_MAP(intent)}
  IN  IF found = {} THEN NoTool ELSE CHOOSE tool \in found : TRUE

\* _adapt_params_for_tool: the keys of the parameters.
adapt_params_for_tool(tool_name) ==
  CASE tool_name = "shell_execute" -> {"instruction", "timeout"}
    [] tool_name = "get_time" -> {"timezone"}
    [] tool_name = "memory_tool" -> {"action", "key", "value"}
    [] OTHER -> {}

\* Only the memory tool's parameters come from an LLM answer that can fail to
\* parse.
CanFailToAdapt(tool_name) == tool_name = "memory_tool"

NoPending == [tool |-> NoTool, params |-> {}, intent |-> "none", requested |-> 0]

\* _prune_history
prune_history(history) ==
  IF Len(history) > ManagerMaxHistory * 2
  THEN LastN(history, ManagerMaxHistory * 2) ELSE history

NoTurn ==
  [called |-> FALSE, user_input |-> <<>>, classified |-> "none",
   pending_before |-> NoPending, requested |-> "none", ran |-> "none",
   executed |-> FALSE, returned |-> TRUE]

\* ManagerAgent.__init__: no pending action, empty history. calls counts the
\* calls of run; last is the record of the latest one.
ManagerAgent ==
  [pending_action |-> NoPending, history |-> <<>>, calls |-> 0,
   last |-> NoTurn]

\* A manager that intercepts nothing.
InterceptsNothing(tool) == FALSE

\* Step A of _execute_with_registry: `tool.risk_level == RiskLevel.DANGEROUS`.
Intercepted(tool) == tool.risk_level = "dangerous"

\* ManagerAgent.run(user_input). intent is what _identify_intent answers,
\* adapt_error whether the parameters failed to parse, body what the tool's
\* execute does if it is called. The result is the manager and its executor
\* afterwards; returned is FALSE when run is left by an exception.
manager_run(m, ex, user_input, intent, adapt_error, body) ==
  LET number == m.calls + 1
      Turn(classified, requested, ran, executed, returned) ==
        [called |-> TRUE, user_input |-> user_input,
         classified |-> classified, pending_before |-> m.pending_action,
         requested |-> requested, ran |-> ran, executed |-> executed,
         returned |-> returned]
      Result(pending, history, executor_after, turn) ==
        [manager |-> [pending_action |-> pending, history |-> history,
                      calls |-> number, last |-> turn],
         executor |-> executor_after]
      \* the normal flow: steps 1 to 6 of run
      Normal(classified) ==
        LET history == Append(prune_history(m.history), "user")
            tool == ManagerLookup(intent)
        IN  IF tool = NoTool
              THEN Result(NoPending, Append(history, "assistant"), ex,
                          Turn(classified, "none", "none", FALSE, TRUE))
            ELSE IF adapt_error /\ CanFailToAdapt(tool.name)
              THEN Result(NoPending, Append(history, "assistant"), ex,
                          Turn(classified, "none", "none", FALSE, TRUE))
            ELSE IF Intercepted(tool)
              THEN Result([tool |-> tool,
                           params |-> adapt_params_for_tool(tool.name),
                           intent |-> intent, requested |-> number],
                          Append(history, "assistant"), ex,
                          Turn(classified, tool.name, "none", FALSE, TRUE))
            ELSE LET out == run(ex, tool, adapt_params_for_tool(tool.name),
                                FALSE, "approved", body)
                 IN  Result(NoPending,
                            IF out.returned THEN Append(history, "assistant")
                            ELSE history,
                            out.executor,
                            Turn(classified, "none", tool.name, out.executed,
                                 out.returned))
  IN  IF user_input = <<>>
        THEN Result(m.pending_action, m.history, ex,
                    Turn("none", "none", "none", FALSE, TRUE))
      ELSE IF m.pending_action = NoPending
        THEN Normal("none")
      ELSE LET classified == check_confirmation_response(user_input)
               history == Append(m.history, "user")
           IN  IF classified = "confirmed"
                 THEN LET out == run(ex, m.pending_action.tool,
                                     m.pending_action.params, TRUE, "approved",
                                     body)
                      IN  Result(IF out.returned THEN NoPending
                                 ELSE m.pending_action,
                                 IF out.returned
                                 THEN Append(history, "assistant")
                                 ELSE history,
                                 out.executor,
                                 Turn(classified, "none",
                                      m.pending_action.tool.name, out.executed,
                                      out.returned))
               ELSE IF classified = "rejected"
                 THEN Result(NoPending, Append(history, "assistant"), ex,
                             Turn(classified, "none", "none", FALSE, TRUE))
               ELSE Normal("none")

\* ----------------------------------------------------------------------- state
VARIABLES
  log,          \* checkpoint: AgentState.messages of the thread
  stRole,       \* checkpoint: AgentState.current_role
  stMode,       \* checkpoint: AgentState.interaction_mode ("None": never set)
  next,         \* checkpoint: the node the engine runs next ("end": none)
  running,      \* the engine is inside astream_events
  safety,       \* not args.no_safety
  mode,         \* the driver's mode: "text" (args.text) or "voice"
  drv,          \* driver position: "idle" (reading input) or "turn"
  drvMsgs,      \* run_main_loop's messages list
  drvRole,      \* run_main_loop's current_role
  streamed,     \* full_response: the texts streamed during the turn
  nextId,       \* source of fresh message and tool-call ids
  llmCalls,     \* number of chatbot_node executions so far
  toolCalls,    \* number of tool calls emitted so far
  llmRoles,     \* Config.LLM_ROLES
  created,      \* the role and result of the latest LLMFactory.create call
  execLog,      \* history: the calls the tools node handled
  approvals,    \* history: batches the confirm function approved
  rejections,   \* history: batches the confirm function rejected
  prevStep,     \* history: the step taken last
  prevLog,      \* history: the log before the step taken last
  lastSent,     \* history: the list passed to the LLM by the last invocation
  lastCall,     \* history: role, mode, outcome of the last invocation, sentinel seen before it
  lastSentinel, \* history: role of the latest sentinel a tool result carried
  lastToolsOut, \* history: the messages of the latest tools execution
  prevRole,     \* history: current_role before the step taken last
  heard,        \* history: the response the voice confirmation just heard
  schedule,     \* history: the invocation events of the tools execution just done
  turnLog,      \* history: the log when the current run of the engine was started
  turnMsgs,     \* history: the driver's list before the current turn
  turnReplies,  \* history: the chatbot replies of the current run
  turnKind,     \* history: "user" (a run for a new user message) or "rerun"
  executor,     \* a ToolExecutor: require_confirmation_for, _stats, _history
  lastRun,      \* history: the latest ToolExecutor.run call and its outcome
  registry,     \* the ToolRegistry singleton: its four maps
  lastRegister, \* history: the latest register / unregister call and its outcome
  speech,       \* AudioHandler.speak: position, mixer, output file, result
  manager       \* a ManagerAgent: pending_action, history, the latest run

vars ==
  <<log, stRole, stMode, next, running, safety, mode, drv, drvMsgs, drvRole,
    streamed, nextId, llmCalls, toolCalls, llmRoles, created, execLog, approvals,
    rejections, prevStep, prevLog, lastSent, lastCall, lastSentinel, lastToolsOut,
    prevRole, heard, schedule, turnLog, turnMsgs, turnReplies, turnKind,
    executor, lastRun, registry, lastRegister, speech, manager>>

factoryVars == <<llmRoles, created>>

componentVars ==
  <<executor, lastRun, registry, lastRegister, speech, manager>>

threadVars ==
  <<log, stRole, stMode, next, running, safety, mode, drv, drvMsgs, drvRole,
    streamed, nextId, llmCalls, toolCalls, execLog, approvals, rejections,
    prevStep, prevLog, lastSent, lastCall, lastSentinel, lastToolsOut, prevRole,
    heard, schedule, turnLog, turnMsgs, turnReplies, turnKind>>

turnVars == <<turnLog, turnMsgs, turnKind>>

\* The driver, the thread and the histories after run_main_loop's set-up.
InitThread ==
  /\ safety \in BOOLEAN
  /\ mode \in {"text", "voice"}
  /\ drvRole \in StartRoles
  /\ stRole = drvRole
  /\ stMode = "None"
  /\ log = <<>>
  /\ next = "end"
  /\ running = FALSE
  /\ drv = "idle"
  /\ drvMsgs = <<>>
  /\ streamed = <<>>
  /\ nextId = 1
  /\ llmCalls = 0
  /\ toolCalls = 0
  /\ execLog = {}
  /\ approvals = {}
  /\ rejections = {}
  /\ prevStep = "init"
  /\ prevLog = <<>>
  /\ lastSent = <<>>
  /\ lastCall = [role |-> "none", mode |-> "none", outcome |-> "none",
                 sentinel |-> "none"]
  /\ lastSentinel = "none"
  /\ lastToolsOut = <<>>
  /\ prevRole = stRole
  /\ heard = NotAsked
  /\ schedule = <<>>
  /\ turnLog = <<>>
  /\ turnMsgs = <<>>
  /\ turnReplies = <<>>
  /\ turnKind = "user"

\* The components outside the graph, as constructed.
InitComponents ==
  /\ executor = ToolExecutor({}, max_history)
  /\ lastRun = NoRun
  /\ registry = ToolRegistry
  /\ lastRegister = NoRegistryCall
  /\ speech = NoSpeech
  /\ manager = ManagerAgent

Init ==
  /\ InitThread
  /\ InitComponents
  /\ llmRoles = LLM_ROLES
  /\ created = NoLLM

LastMsg == log[Len(log)]

\* ---------------------------------------------------------------- driver: turn
\* run_graph_with_safety's first astream_events call feeds {messages,
\* current_role, metadata} to the graph: the reducer merges the history,
\* current_role is overwritten, interaction_mode is not among the keys, and the
\* run starts at START -> chatbot whatever the checkpoint's next was.
RunGraph(messages, kind) ==
  /\ log' = add_messages(log, messages)
  /\ stRole' = drvRole
  /\ prevRole' = stRole
  /\ next' = "chatbot"
  /\ running' = TRUE
  /\ drv' = "turn"
  /\ streamed' = <<>>
  /\ prevStep' = "input"
  /\ prevLog' = log
  /\ heard' = NotAsked
  /\ schedule' = <<>>
  /\ turnLog' = log
  /\ turnMsgs' = drvMsgs
  /\ turnReplies' = <<>>
  /\ turnKind' = kind
  /\ UNCHANGED <<stMode, safety, mode, drvRole, llmCalls, toolCalls, execLog,
                 approvals, rejections, lastSent, lastCall, lastSentinel,
                 lastToolsOut>>
  /\ UNCHANGED factoryVars
  /\ UNCHANGED componentVars

\* The driver appends the user message and calls run_graph_with_safety.
StartTurn ==
  /\ drv = "idle"
  /\ llmCalls < MaxLLMCalls
  /\ LET messages == Append(drvMsgs, HumanMessage(nextId))
     IN  /\ drvMsgs' = messages
         /\ RunGraph(messages, "user")
  /\ nextId' = nextId + 1

\* run_graph_with_safety called again with the list it returned, no user message
\* added, on a thread that is terminal.
Rerun ==
  /\ drv = "idle"
  /\ prevStep = "finish"
  /\ next = "end"
  /\ llmCalls < MaxLLMCalls
  /\ RunGraph(drvMsgs, "rerun")
  /\ UNCHANGED <<drvMsgs, nextId>>

\* ------------------------------------------------------------------ graph nodes
CallsWithIds(batch, firstId) ==
  [k \in 1..Len(batch) |->
     [id |-> firstId + k - 1, name |-> batch[k].name, arg |-> batch[k].arg]]

\* chatbot_node from the building of messages_to_send on, followed by the
\* conditional edge; the engine stops before a node of interrupt_before, and at
\* END.
ChatbotStep(response_msg, tokens, ids, calls, outcome) ==
  LET mode_ == IF stMode = "None" THEN "text" ELSE stMode
      sent == MessagesToSend(log, stRole, mode_)
      merged == add_messages(log, ChatbotDelta(sent, response_msg))
      target == tools_condition(merged)
  IN  /\ log' = merged
      /\ next' = target
      /\ running' = (target # "end" /\ target \notin InterruptBefore(safety))
      /\ streamed' = streamed \o tokens
      /\ nextId' = nextId + ids
      /\ llmCalls' = llmCalls + 1
      /\ toolCalls' = toolCalls + calls
      /\ lastSent' = sent
      /\ lastCall' = [role |-> stRole, mode |-> mode_, outcome |-> outcome,
                      sentinel |-> lastSentinel]
      /\ prevStep' = "chatbot"
      /\ prevLog' = log
      /\ prevRole' = stRole
      /\ heard' = NotAsked
      /\ schedule' = <<>>
      /\ turnReplies' = Append(turnReplies, response_msg)
      /\ UNCHANGED <<stRole, stMode, safety, mode, drv, drvMsgs, drvRole, execLog,
                     approvals, rejections, lastSentinel, lastToolsOut>>
      /\ UNCHANGED turnVars
      /\ UNCHANGED factoryVars
  /\ UNCHANGED componentVars
      /\ UNCHANGED componentVars

\* LLMFactory.create or bind_tools raises: both calls are outside chatbot_node's
\* try block, so the exception leaves the node and the graph; the checkpoint
\* keeps chatbot as the next node, and run_main_loop's handler prints the error
\* and goes on with the next input.
ChatbotRaises ==
  /\ llmCalls' = llmCalls + 1
  /\ running' = FALSE
  /\ drv' = "idle"
  /\ prevStep' = "chatbot_raise"
  /\ prevLog' = log
  /\ prevRole' = stRole
  /\ heard' = NotAsked
  /\ schedule' = <<>>
  /\ UNCHANGED <<log, stRole, stMode, next, safety, mode, drvMsgs, drvRole,
                 streamed, nextId, toolCalls, execLog, approvals, rejections,
                 lastSent, lastCall, lastSentinel, lastToolsOut, turnReplies>>
  /\ UNCHANGED turnVars
  /\ UNCHANGED factoryVars
  /\ UNCHANGED componentVars

\* chatbot_node once the model is obtained and bound: whatever the invocation
\* does, the node returns one assistant message.
ChatbotAnswers ==
  /\ running
  /\ next = "chatbot"
  /\ \/ \* the LLM invocation raises
        ChatbotStep(LLMFailureMessage(nextId), <<>>, 1, 0, "invoke_raised")
     \/ \* the LLM returns neither content nor tool calls
        ChatbotStep(EmptyResponseMessage(nextId), <<>>, 1, 0, "empty")
     \/ \* a text-only answer
        \E mk \in TextMarkers :
          ChatbotStep(AIMessage(nextId, <<>>, "txt", mk),
                      <<[text |-> "txt", marker |-> mk]>>, 1, 0, "text")
     \/ \* an answer with tool calls
        /\ llmCalls + 1 < MaxLLMCalls
        /\ toolCalls < MaxToolCalls
        /\ \E batch \in Batches(Min(MaxCalls, MaxToolCalls - toolCalls)) :
             ChatbotStep(
               AIMessage(nextId, CallsWithIds(batch, nextId + 1), "", "none"),
               <<>>, Len(batch) + 1, Len(batch), "calls")

ChatbotNode ==
  \/ \* obtaining or binding the model raises
     /\ running
     /\ next = "chatbot"
     /\ ChatbotRaises
  \/ ChatbotAnswers

\* The latest sentinel among the messages of a tools execution.
RECURSIVE LatestSentinel(_, _)
LatestSentinel(outs, before) ==
  IF outs = <<>> THEN before
  ELSE LatestSentinel(Tail(outs),
         IF Head(outs).marker # "none" THEN Head(outs).marker ELSE before)

\* The prebuilt ToolNode on the tool calls of the last assistant message.
ToolsNode ==
  /\ running
  /\ next = "tools"
  /\ LET calls == LastMsg.calls
         outs == ToolNodeOutput(calls, nextId)
     IN  /\ log' = add_messages(log, outs)
         /\ execLog' = execLog \cup
              {[id |-> calls[k].id, name |-> calls[k].name, batch |-> LastMsg.id,
                entry |-> prevStep,
                invoked |-> get_tool_by_name(calls[k].name) # "None"] :
                 k \in 1..Len(calls)}
         /\ lastSentinel' = LatestSentinel(outs, lastSentinel)
         /\ lastToolsOut' = outs
         /\ nextId' = nextId + Len(outs)
         /\ \E sched \in GatherSchedules(Len(calls), 0, {}) : schedule' = sched
  /\ next' = "state_updater"
  /\ prevStep' = "tools"
  /\ prevLog' = log
  /\ prevRole' = stRole
  /\ heard' = NotAsked
  /\ UNCHANGED <<stRole, stMode, running, safety, mode, drv, drvMsgs, drvRole,
                 streamed, llmCalls, toolCalls, approvals, rejections, lastSent,
                 lastCall, turnReplies>>
  /\ UNCHANGED turnVars
  /\ UNCHANGED factoryVars
  /\ UNCHANGED componentVars

StateUpdaterNode ==
  /\ running
  /\ next = "state_updater"
  /\ stRole' = state_updater_node(log, stRole)
  /\ prevRole' = stRole
  /\ next' = "chatbot"
  /\ prevStep' = "state_updater"
  /\ prevLog' = log
  /\ heard' = NotAsked
  /\ schedule' = <<>>
  /\ UNCHANGED <<log, stMode, running, safety, mode, drv, drvMsgs, drvRole,
                 streamed, nextId, llmCalls, toolCalls, execLog, approvals,
                 rejections, lastSent, lastCall, lastSentinel, lastToolsOut,
                 turnReplies>>
  /\ UNCHANGED turnVars
  /\ UNCHANGED factoryVars
  /\ UNCHANGED componentVars

\* --------------------------------------------- driver: after the stream ended
Suspended ==
  /\ drv = "turn"
  /\ ~running
  /\ InterruptPending(next, log)

\* astream_events(None): the run resumes from the checkpoint.
Resume ==
  /\ running' = TRUE
  /\ prevStep' = "resume"
  /\ prevLog' = log
  /\ prevRole' = stRole
  /\ schedule' = <<>>
  /\ UNCHANGED <<log, stRole, stMode, next, safety, mode, drv, drvMsgs, drvRole,
                 streamed, nextId, llmCalls, toolCalls, execLog, rejections,
                 lastSent, lastCall, lastSentinel, lastToolsOut, turnReplies>>
  /\ UNCHANGED turnVars
  /\ UNCHANGED factoryVars
  /\ UNCHANGED componentVars

\* all_safe and auto_approve_safe: resume from the checkpoint without asking.
AutoApprove ==
  /\ Suspended
  /\ check_tool_calls_safety(LastMsg.calls)
  /\ heard' = NotAsked
  /\ UNCHANGED approvals
  /\ Resume

\* The confirm function returned True: resume from the checkpoint. In text mode
\* the answer is Confirm.ask's boolean; in voice mode it is computed from the
\* response heard.
ConfirmApprove ==
  /\ Suspended
  /\ ~check_tool_calls_safety(LastMsg.calls)
  /\ \/ mode = "text" /\ heard' = NotAsked
     \/ /\ mode = "voice"
        /\ \E response \in HostResponses :
             /\ voice_confirm_dangerous_tools(response)
             /\ heard' = Heard(response)
  /\ approvals' = approvals \cup {LastMsg.id}
  /\ Resume

\* The confirm function returned False: aupdate_state writes the rejection
\* messages as node "tools", and the run resumes after that node.
ConfirmReject ==
  /\ Suspended
  /\ ~check_tool_calls_safety(LastMsg.calls)
  /\ \/ mode = "text" /\ heard' = NotAsked
     \/ /\ mode = "voice"
        /\ \E response \in HostResponses :
             /\ ~voice_confirm_dangerous_tools(response)
             /\ heard' = Heard(response)
  /\ LET rejection_msgs == create_rejection_messages(LastMsg.calls, nextId)
     IN  /\ log' = add_messages(log, rejection_msgs)
         /\ nextId' = nextId + Len(rejection_msgs)
  /\ rejections' = rejections \cup {LastMsg.id}
  /\ next' = "state_updater"
  /\ running' = TRUE
  /\ prevStep' = "inject"
  /\ prevLog' = log
  /\ prevRole' = stRole
  /\ schedule' = <<>>
  /\ UNCHANGED <<stRole, stMode, safety, mode, drv, drvMsgs, drvRole, streamed,
                 llmCalls, toolCalls, execLog, approvals, lastSent, lastCall,
                 lastSentinel, lastToolsOut, turnReplies>>
  /\ UNCHANGED turnVars
  /\ UNCHANGED factoryVars
  /\ UNCHANGED componentVars

\* The confirmation prompt raises (KeyboardInterrupt, or any exception of the
\* console or voice channel): run_main_loop's handlers print and continue with
\* the next input; the checkpoint stays suspended before tools.
ConfirmRaises ==
  /\ Suspended
  /\ ~check_tool_calls_safety(LastMsg.calls)
  /\ drv' = "idle"
  /\ prevStep' = "raise"
  /\ prevLog' = log
  /\ prevRole' = stRole
  /\ heard' = NotAsked
  /\ schedule' = <<>>
  /\ UNCHANGED <<log, stRole, stMode, next, running, safety, mode, drvMsgs,
                 drvRole, streamed, nextId, llmCalls, toolCalls, execLog,
                 approvals, rejections, lastSent, lastCall, lastSentinel,
                 lastToolsOut, turnReplies>>
  /\ UNCHANGED turnVars
  /\ UNCHANGED factoryVars
  /\ UNCHANGED componentVars

\* The loop of run_graph_with_safety breaks: graph_state.next is empty, or it
\* is not an interrupt the loop handles ("Unknown interrupt state"). The final
\* messages replace the driver's list and the driver looks for a role switch.
FinishTurn ==
  /\ drv = "turn"
  /\ ~running
  /\ (next = "end" \/ ~InterruptPending(next, log))
  /\ drvMsgs' = log
  /\ drvRole' = DriverRoleAfterTurn(log, streamed, drvRole)
  /\ drv' = "idle"
  /\ prevStep' = "finish"
  /\ prevLog' = log
  /\ prevRole' = stRole
  /\ heard' = NotAsked
  /\ schedule' = <<>>
  /\ UNCHANGED <<log, stRole, stMode, next, running, safety, mode, streamed,
                 nextId, llmCalls, toolCalls, execLog, approvals, rejections,
                 lastSent, lastCall, lastSentinel, lastToolsOut, turnReplies>>
  /\ UNCHANGED turnVars
  /\ UNCHANGED factoryVars
  /\ UNCHANGED componentVars

Next ==
  \/ StartTurn
  \/ ChatbotNode
  \/ ToolsNode
  \/ StateUpdaterNode
  \/ AutoApprove
  \/ ConfirmApprove
  \/ ConfirmReject
  \/ ConfirmRaises
  \/ FinishTurn

Spec == Init /\ [][Next]_vars

\* ------------------------------------ the turn when the LLM and the host answer
\* The model is obtained, and the host answers every confirmation prompt: no
\* step leaves the turn by an exception. The engine runs every node that is due,
\* the host answers a prompt that is open, and the driver's loop goes on; the
\* user need not send another message.
NextLive ==
  \/ StartTurn
  \/ ChatbotAnswers
  \/ ToolsNode
  \/ StateUpdaterNode
  \/ AutoApprove
  \/ ConfirmApprove
  \/ ConfirmReject
  \/ FinishTurn

SpecLive ==
  /\ Init
  /\ [][NextLive]_vars
  /\ WF_vars(ChatbotAnswers)
  /\ WF_vars(ToolsNode)
  /\ WF_vars(StateUpdaterNode)
  /\ WF_vars(AutoApprove)
  /\ WF_vars(ConfirmApprove \/ ConfirmReject)
  /\ WF_vars(FinishTurn)

\* ------------------------------------------------ the engine run a second time
NextRerun == Next \/ Rerun

SpecRerun == Init /\ [][NextRerun]_vars

\* ------------------------------------------------ the text-mode clear command
\* `clear` in the text loop: messages.clear() on the list of the driver, and
\* the report that the session is cleared. The thread of the engine is not
\* touched.
ClearCommand ==
  /\ drv = "idle"
  /\ mode = "text"
  /\ drvMsgs' = <<>>
  /\ prevStep' = "clear"
  /\ prevLog' = log
  /\ UNCHANGED <<log, stRole, stMode, next, running, safety, mode, drv, drvRole,
                 streamed, nextId, llmCalls, toolCalls, execLog, approvals,
                 rejections, lastSent, lastCall, lastSentinel, lastToolsOut,
                 prevRole, heard, schedule, turnReplies>>
  /\ UNCHANGED turnVars
  /\ UNCHANGED factoryVars
  /\ UNCHANGED componentVars

NextClear == Next \/ ClearCommand

SpecClear == Init /\ [][NextClear]_vars

\* ------------------------------------- answers with text and tool calls together
\* chatbot_node when the LLM answers with text and tool calls in one message:
\* the text is streamed, the calls go to the tools node.
ChatbotAnswersTextAndCalls ==
  /\ running
  /\ next = "chatbot"
  /\ llmCalls + 1 < MaxLLMCalls
  /\ toolCalls < MaxToolCalls
  /\ \E batch \in Batches(Min(MaxCalls, MaxToolCalls - toolCalls)) :
       ChatbotStep(
         AIMessage(nextId, CallsWithIds(batch, nextId + 1), "txt", "none"),
         <<[text |-> "txt", marker |-> "none"]>>, Len(batch) + 1, Len(batch),
         "calls")

NextTexted == Next \/ ChatbotAnswersTextAndCalls

SpecTexted == Init /\ [][NextTexted]_vars

\* ------------------------------------------------------- the factory on its own
\* LLMFactory.create(role) under the configuration llmRoles.
LLMFactoryCreate ==
  /\ \E role \in FactoryRoleInputs :
       created' = [role |-> role, llm |-> create(llmRoles, role)]
  /\ UNCHANGED <<log, stRole, stMode, next, running, safety, mode, drv, drvMsgs,
                 drvRole, streamed, nextId, llmCalls, toolCalls, llmRoles,
                 execLog, approvals, rejections, prevStep, prevLog, lastSent,
                 lastCall, lastSentinel, lastToolsOut, prevRole, heard, schedule,
                 turnLog, turnMsgs, turnReplies, turnKind>>
  /\ UNCHANGED componentVars

InitFactory ==
  /\ InitThread
  /\ InitComponents
  /\ llmRoles \in RoleConfigs
  /\ created = NoLLM

NextFactory == LLMFactoryCreate

SpecFactory == InitFactory /\ [][NextFactory]_vars

\* ------------------------------------------------------ the executor on its own
\* The thread at rest, for the specifications of the components outside it.
InitIdle ==
  /\ InitThread
  /\ safety
  /\ mode = "text"
  /\ drvRole = "default"
  /\ llmRoles = LLM_ROLES
  /\ created = NoLLM

\* One ToolExecutor.run call, whatever the callback and the tool do.
ExecutorRun ==
  /\ executor.stats.total_executions < MaxRuns
  /\ \E tool \in ExecutorTools, params \in ParamInputs,
        skip_confirmation \in BOOLEAN :
     \* the callback has an outcome only in a run that calls it
     \E callback \in
          IF ~skip_confirmation
               /\ tool.risk_level \in executor.require_confirmation_for
          THEN CallbackOutcomes ELSE {"approved"},
        body \in ExecuteOutcomes :
       LET out == run(executor, tool, params, skip_confirmation, callback, body)
       IN  /\ executor' = out.executor
           /\ lastRun' =
                [called |-> TRUE, op |-> "run", entry |-> out.entry,
                 logged |-> lastRun.logged \o out.entry,
                 tool |-> tool, params |-> params,
                 skip_confirmation |-> skip_confirmation,
                 callback |-> IF out.asked THEN callback ELSE "none",
                 body |-> IF out.executed THEN body ELSE "none",
                 before |-> executor, returned |-> out.returned,
                 result |-> out.result, asked |-> out.asked,
                 validated |-> out.validated, executed |-> out.executed]
  /\ UNCHANGED <<registry, lastRegister, speech, manager>>
  /\ UNCHANGED threadVars
  /\ UNCHANGED factoryVars

InitExecutor ==
  /\ InitIdle
  /\ \E require_confirmation_for \in RequireInputs, limit \in HistoryLimits :
       executor = ToolExecutor(require_confirmation_for, limit)
  /\ lastRun = NoRun
  /\ registry = ToolRegistry
  /\ lastRegister = NoRegistryCall
  /\ speech = NoSpeech
  /\ manager = ManagerAgent

\* clear_history(): the history is emptied; the record of the last call
\* starts again with an empty list of written entries.
ExecutorClearHistory ==
  /\ executor.history # <<>>
  /\ executor' = clear_history(executor)
  /\ lastRun' = [NoRun EXCEPT !.op = "clear_history", !.before = executor]
  /\ UNCHANGED <<registry, lastRegister, speech, manager>>
  /\ UNCHANGED threadVars
  /\ UNCHANGED factoryVars

NextExecutor == ExecutorRun \/ ExecutorClearHistory

SpecExecutor == InitExecutor /\ [][NextExecutor]_vars

\* ------------------------------------------------------ the registry on its own
RegistryRegister ==
  /\ \E tool \in RegistryTools, intents \in IntentInputs, override \in BOOLEAN :
       LET out == register(registry, tool, intents, override)
       IN  /\ registry' = out.registry
           /\ lastRegister' =
                [op |-> "register", name |-> tool.name, tool |-> tool,
                 intents |-> intents, override |-> override,
                 before |-> registry, raised |-> out.raised,
                 returned |-> FALSE]
  /\ UNCHANGED <<executor, lastRun, speech, manager>>
  /\ UNCHANGED threadVars
  /\ UNCHANGED factoryVars

RegistryUnregister ==
  /\ \E name \in {tool.name : tool \in RegistryTools} :
       LET out == unregister(registry, name)
       IN  /\ registry' = out.registry
           /\ lastRegister' =
                [NoRegistryCall EXCEPT !.op = "unregister", !.name = name,
                                       !.before = registry,
                                       !.returned = out.returned]
  /\ UNCHANGED <<executor, lastRun, speech, manager>>
  /\ UNCHANGED threadVars
  /\ UNCHANGED factoryVars

RegistryClear ==
  /\ registry' = clear(registry)
  /\ lastRegister' =
       [NoRegistryCall EXCEPT !.op = "clear", !.before = registry]
  /\ UNCHANGED <<executor, lastRun, speech, manager>>
  /\ UNCHANGED threadVars
  /\ UNCHANGED factoryVars

InitRegistry ==
  /\ InitIdle
  /\ InitComponents

NextRegistry == RegistryRegister \/ RegistryUnregister \/ RegistryClear

SpecRegistry == InitRegistry /\ [][NextRegistry]_vars

\* ----------------------------------------------------------- speak on its own
\* speak up to the polling loop: the mixer is stopped and unloaded, the old
\* output file is removed (a failure is ignored), the audio is generated, and
\* the file is loaded and played. speak returns from here when generation
\* raises (False), when there is no output file afterwards (a bare return:
\* None), and when load or play raises (False).
SpeakBegin ==
  /\ speech.pc = "idle"
  /\ speech.calls < MaxSpeaks
  /\ \E callback \in BOOLEAN, removed \in BOOLEAN,
        generated \in GenerateOutcomes, loaded \in BOOLEAN :
       LET kept == speech.file /\ ~removed
           file == (generated = "saved") \/ kept
           entered == [speech EXCEPT !.busy = FALSE, !.file = file,
                                     !.callback = callback, !.polls = <<>>,
                                     !.calls = @ + 1]
       IN  speech' =
             IF generated = "raises" THEN SpeakReturn(entered, "False")
             ELSE IF ~file THEN SpeakReturn(entered, "None")
             ELSE IF ~loaded THEN SpeakReturn(entered, "False")
             ELSE [entered EXCEPT !.pc = "playing", !.busy = TRUE,
                                  !.result = "none"]
  /\ UNCHANGED <<executor, lastRun, registry, lastRegister, manager>>
  /\ UNCHANGED threadVars
  /\ UNCHANGED factoryVars

\* One pass of the loop with a callback: it answers true (the music is stopped,
\* speak returns True), it answers false (the loop goes on), or it raises (the
\* handler returns False; the music is not stopped).
SpeakPoll ==
  /\ speech.pc = "playing"
  /\ speech.busy
  /\ speech.callback
  /\ \E answer \in PollOutcomes :
       LET polled == [speech EXCEPT !.polls = Append(@, answer)]
       IN  \/ /\ answer = "true"
              /\ speech' = SpeakReturn([polled EXCEPT !.busy = FALSE], "True")
           \/ /\ answer = "false"
              /\ Len(speech.polls) < MaxPolls
              /\ speech' = polled
           \/ /\ answer = "raises"
              /\ speech' = SpeakReturn(polled, "False")
  /\ UNCHANGED <<executor, lastRun, registry, lastRegister, manager>>
  /\ UNCHANGED threadVars
  /\ UNCHANGED factoryVars

\* The mixer reaches the end of the audio.
PlaybackEnds ==
  /\ speech.busy
  /\ speech' = [speech EXCEPT !.busy = FALSE]
  /\ UNCHANGED <<executor, lastRun, registry, lastRegister, manager>>
  /\ UNCHANGED threadVars
  /\ UNCHANGED factoryVars

\* get_busy() is false: the loop ends, the file is unloaded, speak returns
\* False.
SpeakLoopExit ==
  /\ speech.pc = "playing"
  /\ ~speech.busy
  /\ speech' = SpeakReturn(speech, "False")
  /\ UNCHANGED <<executor, lastRun, registry, lastRegister, manager>>
  /\ UNCHANGED threadVars
  /\ UNCHANGED factoryVars

InitSpeak ==
  /\ InitIdle
  /\ InitComponents

NextSpeak == SpeakBegin \/ SpeakPoll \/ PlaybackEnds \/ SpeakLoopExit

SpecSpeak == InitSpeak /\ [][NextSpeak]_vars

\* ---------------------------------------------------------------------------
\* ManagerAgent: turns of run on one agent
\* ---------------------------------------------------------------------------

ManagerRun ==
  /\ manager.calls < MaxTurns
  /\ \E user_input \in UserInputs, intent \in Intents,
        adapt_error \in BOOLEAN, body \in ExecuteOutcomes :
       LET out == manager_run(manager, executor, user_input, intent,
                              adapt_error, body)
       IN  /\ manager' = out.manager
           /\ executor' = out.executor
  /\ UNCHANGED <<lastRun, registry, lastRegister, speech>>
  /\ UNCHANGED threadVars
  /\ UNCHANGED factoryVars

InitManager ==
  /\ InitIdle
  /\ InitComponents

NextManager == ManagerRun

SpecManager == InitManager /\ [][NextManager]_vars

\* ------------------------------------------- the nodes' functions on stored logs
\* n plain messages with ids from firstId, Human and assistant text in turn,
\* the first one a Human message iff human_first.
Pad(n, firstId, human_first) ==
  [k \in 1..n |->
     IF (k % 2 = 1) = human_first THEN HumanMessage(firstId + k - 1)
     ELSE AIMessage(firstId + k - 1, <<>>, "txt", "none")]

\* An assistant message with the calls of batch and the ToolNode's answers.
ToolRound(batch, firstId) ==
  IF batch = <<>> THEN <<>>
  ELSE LET calls == CallsWithIds(batch, firstId + 1)
       IN  <<AIMessage(firstId, calls, "", "none")>>
             \o ToolNodeOutput(calls, firstId + Len(batch) + 1)

SwitchCall == [name |-> "switch_role", arg |-> "gemini"]

MemoryCall == [name |-> "memory_operation", arg |-> ""]

StoredBatches ==
  {<<>>, <<SwitchCall>>, <<MemoryCall>>, <<SwitchCall, MemoryCall>>,
   <<SwitchCall, MemoryCall, MemoryCall, MemoryCall>>}

\* Numbers of plain messages after the first tool round (the assistant's
\* answer, then whole exchanges, the last one a Human message): none, one
\* exchange, and enough to push the round to the edge of the truncation window.
PadLengths ==
  {0, 2, MAX_HISTORY_MESSAGES - 4, MAX_HISTORY_MESSAGES - 2,
   MAX_HISTORY_MESSAGES}

\* A log the thread holds when a node is about to run: whole exchanges and a
\* Human message, a tool round, the exchanges that followed it, and possibly a
\* second tool round.
StoredLog(p, batch1, q, batch2) ==
  LET head == Pad(p, 1, TRUE)
      round1 == ToolRound(batch1, p + 1)
      n1 == p + Len(round1)
      middle == Pad(q, n1 + 1, FALSE)
      round2 == ToolRound(batch2, n1 + q + 1)
  IN  head \o round1 \o middle \o round2

StoredLogs ==
  {StoredLog(p, batch1, q, batch2) :
     p \in {1, 3}, batch1 \in StoredBatches \ {<<>>}, q \in PadLengths,
     batch2 \in StoredBatches}

InitStored ==
  /\ log \in StoredLogs
  /\ stRole \in StartRoles \cup {"vision"}
  /\ drvRole = stRole
  /\ safety = TRUE
  /\ mode = "text"
  /\ stMode = "None"
  /\ next = "chatbot"
  /\ running = TRUE
  /\ drv = "turn"
  /\ drvMsgs = <<>>
  /\ streamed = <<>>
  /\ nextId = Len(log) + 1
  /\ llmCalls = 0
  /\ toolCalls = 0
  /\ execLog = {}
  /\ approvals = {}
  /\ rejections = {}
  /\ prevStep = "init"
  /\ prevLog = log
  /\ lastSent = <<>>
  /\ lastCall = [role |-> "none", mode |-> "none", outcome |-> "none",
                 sentinel |-> "none"]
  /\ lastSentinel = "none"
  /\ lastToolsOut = <<>>
  /\ prevRole = stRole
  /\ heard = NotAsked
  /\ schedule = <<>>
  /\ turnLog = <<>>
  /\ turnMsgs = <<>>
  /\ turnReplies = <<>>
  /\ turnKind = "user"
  /\ InitComponents
  /\ llmRoles = LLM_ROLES
  /\ created = NoLLM

\* chatbot_node up to the invocation, after a user message or after the tools:
\* the list for the LLM is built from the log.
BuildMessages ==
  /\ prevStep = "init"
  /\ LastMsg.kind \in {"human", "tool"}
  /\ lastSent' = MessagesToSend(log, stRole, "text")
  /\ lastCall' = [lastCall EXCEPT !.role = stRole, !.mode = "text"]
  /\ prevStep' = "built"
  /\ UNCHANGED <<log, stRole, stMode, next, running, safety, mode, drv, drvMsgs,
                 drvRole, streamed, nextId, llmCalls, toolCalls, execLog,
                 approvals, rejections, prevLog, lastSentinel, lastToolsOut,
                 prevRole, heard, schedule, turnLog, turnMsgs, turnReplies,
                 turnKind>>
  /\ UNCHANGED factoryVars
  /\ UNCHANGED componentVars

\* state_updater_node on the log the tools node left.
UpdateRole ==
  /\ prevStep = "init"
  /\ LastMsg.kind = "tool"
  /\ stRole' = state_updater_node(log, stRole)
  /\ prevRole' = stRole
  /\ prevStep' = "updated"
  /\ UNCHANGED <<log, stMode, next, running, safety, mode, drv, drvMsgs,
                 drvRole, streamed, nextId, llmCalls, toolCalls, execLog,
                 approvals, rejections, prevLog, lastSent, lastCall,
                 lastSentinel, lastToolsOut, heard, schedule, turnLog, turnMsgs,
                 turnReplies, turnKind>>
  /\ UNCHANGED factoryVars
  /\ UNCHANGED componentVars

NextStored == BuildMessages \/ UpdateRole

SpecStored == InitStored /\ [][NextStored]_vars

\* ===================================================================== claims
DangerousOrUnknown(name) ==
  \/ get_tool_by_name(name) = "None"
  \/ get_tool_risk_level(get_tool_by_name(name)) = "dangerous"

\* C1: with safety enabled, a tool call whose tool is dangerous or not in the
\* registry is handled by the tools node only if the confirm function approved
\* the batch (the assistant message) that contains the call; an approval is
\* recorded per batch, so it never covers a later batch.
C1_DangerousOnlyAfterApproval ==
  safety => \A e \in execLog : DangerousOrUnknown(e.name) => e.batch \in approvals

\* Two different batches with a dangerous call were executed under safety.
C1_Witness ==
  /\ safety
  /\ \E e1 \in execLog : \E e2 \in execLog :
       /\ e1.batch # e2.batch
       /\ e1.invoked /\ DangerousOrUnknown(e1.name)
       /\ e2.invoked /\ DangerousOrUnknown(e2.name)

\* C2 as stated: every execution of a dangerous tool call is entered by a
\* driver resume after a suspension before tools, never directly from chatbot.
C2_DangerousGatedAlways ==
  \A e \in execLog :
    get_tool_risk_level(get_tool_by_name(e.name)) = "dangerous" => e.entry = "resume"

\* C2 amended: with safety enabled, after chatbot produced tool calls the engine
\* is suspended with next = tools without having run the node, and every call the
\* tools node handled was entered by a driver resume, never from chatbot.
C2_GatedWhenSafetyEnabled ==
  safety =>
    /\ \A e \in execLog : e.entry = "resume"
    /\ (prevStep = "chatbot" /\ next = "tools") => ~running

\* A dangerous tool ran under safety, entered by a resume.
C2_Witness ==
  /\ safety
  /\ \E e \in execLog :
       /\ e.invoked
       /\ get_tool_risk_level(get_tool_by_name(e.name)) = "dangerous"
       /\ e.entry = "resume"

\* The number of Tool messages of the log that answer tool-call id.
Answers(id) ==
  Cardinality({i \in 1..Len(log) : log[i].kind = "tool" /\ log[i].tcid = id})

\* C3: when the host rejects a batch, the log holds, right after the assistant
\* message, exactly one Tool message per pending call with that call's id and
\* name; the engine goes on with state_updater and then chatbot; and no call of
\* a rejected batch is ever handled by the tools node.
C3_RejectionAnswersEveryCall ==
  /\ \A i \in 1..Len(log) :
       log[i].id \in rejections =>
         \A k \in 1..Len(log[i].calls) :
           /\ i + k <= Len(log)
           /\ log[i + k].kind = "tool"
           /\ log[i + k].tcid = log[i].calls[k].id
           /\ log[i + k].name = log[i].calls[k].name
           /\ log[i + k].text = "rejected"
           /\ Answers(log[i].calls[k].id) = 1
  /\ \A e \in execLog : e.batch \notin rejections
  /\ prevStep = "inject" => (running /\ next = "state_updater")
  /\ prevStep = "state_updater" => (running /\ next = "chatbot")

\* A batch of two calls, one of them safe, was rejected and chatbot ran again.
C3_Witness ==
  \E i \in 1..Len(log) :
    /\ log[i].id \in rejections
    /\ Len(log[i].calls) = 2
    /\ \E k \in 1..2 : ~DangerousOrUnknown(log[i].calls[k].name)
    /\ Len(log) > i + 2
    /\ log[i + 3].kind = "ai"

\* The Tool messages strictly between positions i and j of a list.
ToolIdsBetween(msgs, i, j) ==
  {k \in (i + 1)..(j - 1) : msgs[k].kind = "tool"}

\* The tool-call ids of msgs[i] are answered, one Tool message each and no
\* other Tool message, by the messages between i and j.
PairedBetween(msgs, i, j) ==
  /\ \A c \in 1..Len(msgs[i].calls) :
       Cardinality({k \in ToolIdsBetween(msgs, i, j) :
                      msgs[k].tcid = msgs[i].calls[c].id}) = 1
  /\ \A k \in ToolIdsBetween(msgs, i, j) : msgs[k].tcid \in CallIds(msgs[i])

\* C4 (I1, pairing): in the persisted log, for every assistant message with tool
\* calls that precedes a later assistant message, the Tool messages between it
\* and the next assistant message answer exactly its tool-call ids.
C4_Pairing ==
  \A i \in 1..Len(log) :
    (HasToolCalls(log[i]) /\ \E j \in (i + 1)..Len(log) : log[j].kind = "ai") =>
      LET j == CHOOSE j \in (i + 1)..Len(log) :
                 /\ log[j].kind = "ai"
                 /\ \A m \in (i + 1)..(j - 1) : log[m].kind # "ai"
      IN  PairedBetween(log, i, j)

\* C5 as stated (I4): whatever the role, the list passed to the chat model does
\* not end in a Tool message.
C5_NoTrailingToolAnyRole ==
  lastSent # <<>> => lastSent[Len(lastSent)].kind # "tool"

\* C5 amended: when chatbot applies the strict-provider sanitiser (role vision
\* or smart, or a Gemini model), the list passed to the chat model does not end
\* in a Tool message.
C5_NoTrailingToolStrict ==
  (lastSent # <<>> /\ IsStrictProvider(lastCall.role)) =>
    lastSent[Len(lastSent)].kind # "tool"

\* A strict-role invocation that followed a tools execution.
C5_Witness ==
  /\ prevStep = "chatbot"
  /\ IsStrictProvider(lastCall.role)
  /\ Len(log) >= 2
  /\ log[Len(log) - 1].kind = "tool"
  /\ log[Len(log) - 1].text # "rejected"

\* C6: once a tool result carried the role-switch sentinel for role R, every
\* later LLM invocation of the thread uses role R (until another sentinel).
C6_SentinelRoleUsed ==
  lastCall.sentinel # "none" => lastCall.role = lastCall.sentinel

\* The tail of the log is the output of the latest tools execution.
AfterToolsExecution ==
  /\ lastToolsOut # <<>>
  /\ Len(log) >= Len(lastToolsOut)
  /\ SubSeq(log, Len(log) - Len(lastToolsOut) + 1, Len(log)) = lastToolsOut

\* C7 (I3): current_role changes only by a state_updater execution that saw the
\* sentinel of the new role in a Tool message of the tools execution just before.
C7_RoleChangesOnlyByStateUpdater ==
  stRole # prevRole =>
    /\ prevStep = "state_updater"
    /\ AfterToolsExecution
    /\ \E k \in 1..Len(lastToolsOut) : lastToolsOut[k].marker = stRole

\* C8: current_role, in the state and in the driver, is always one of the five
\* roles of the enum.
C8_RoleInEnum == stRole \in Roles /\ drvRole \in Roles

\* The messages right after position i that are Tool messages.
RECURSIVE RunEnd(_, _)
RunEnd(msgs, j) ==
  IF j <= Len(msgs) /\ msgs[j].kind = "tool" THEN RunEnd(msgs, j + 1) ELSE j

\* C9: in the sanitiser's output every assistant message that carries tool calls
\* is immediately followed by exactly one Tool message per tool-call id.
C9_SanitisedPaired ==
  IsStrictProvider(lastCall.role) =>
    \A i \in 1..Len(lastSent) :
      HasToolCalls(lastSent[i]) => PairedBetween(lastSent, i, RunEnd(lastSent, i + 1))

\* C10 (I5): the persisted log holds no System message; the list built for an
\* LLM call has the system prompt as its first element and nowhere else.
C10_NoSystemInLog ==
  /\ \A i \in 1..Len(log) : log[i].kind # "system"
  /\ lastSent # <<>> =>
       /\ lastSent[1].kind = "system"
       /\ \A i \in 2..Len(lastSent) : lastSent[i].kind # "system"

\* Two LLM calls, a rejection and a tools execution have happened.
C10_Witness ==
  /\ llmCalls >= 2
  /\ rejections # {}
  /\ execLog # {}
  /\ Len(lastSent) >= 4

\* The step taken last appended exactly one assistant message, with text and
\* without tool calls, and the run went to END.
FailureDelta ==
  /\ Len(log) = Len(prevLog) + 1
  /\ SubSeq(log, 1, Len(prevLog)) = prevLog
  /\ LastMsg.kind = "ai"
  /\ LastMsg.calls = <<>>
  /\ LastMsg.text # ""
  /\ next = "end"
  /\ ~running

\* C11 as stated: chatbot never raises; when obtaining or binding the model
\* fails, the LLM invocation fails, or the response is empty, the delta is
\* exactly one assistant text message without tool calls and the run ends.
C11_ChatbotNeverRaises ==
  (\/ prevStep = "chatbot_raise"
   \/ prevStep = "chatbot" /\ lastCall.outcome \in {"invoke_raised", "empty"})
    => FailureDelta

\* C11 amended: when the LLM invocation fails or the response is empty, the
\* delta is exactly one assistant text message without tool calls and the run
\* ends; an exception of LLMFactory.create or bind_tools is not caught by
\* chatbot: it leaves the node without any delta and the driver gets the
\* exception.
C11_InvokeFailureYieldsOneMessage ==
  /\ (prevStep = "chatbot" /\ lastCall.outcome \in {"invoke_raised", "empty"})
       => FailureDelta
  /\ prevStep = "chatbot_raise" =>
       (log = prevLog /\ ~running /\ drv = "idle")

\* An empty response right after a tools execution.
C11_Witness ==
  /\ prevStep = "chatbot"
  /\ lastCall.outcome = "empty"
  /\ Len(log) >= 4
  /\ log[Len(log) - 1].kind = "tool"

\* The batch of an assistant message was resumed, rejected or executed.
Decided(batch) ==
  \/ batch \in approvals \cup rejections
  \/ \E e \in execLog : e.batch = batch

\* C12: with safety enabled, the confirm function is asked about a batch exactly
\* when one of its calls is unknown or dangerous; a batch of safe calls is
\* resumed without asking; and a mixed batch is decided as a whole: approved,
\* every call of it is handled by the tools node, rejected, none is.
C12_ConfirmIffDangerousOrUnknown ==
  safety =>
    \A i \in 1..Len(log) :
      (HasToolCalls(log[i]) /\ Decided(log[i].id)) =>
        /\ (log[i].id \in approvals \cup rejections)
             <=> (\E k \in 1..Len(log[i].calls) :
                    DangerousOrUnknown(log[i].calls[k].name))
        /\ (\E e \in execLog : e.batch = log[i].id) =>
             \A k \in 1..Len(log[i].calls) :
               \E e \in execLog : e.id = log[i].calls[k].id /\ e.batch = log[i].id
        /\ log[i].id \in rejections => \A e \in execLog : e.batch # log[i].id

\* A batch of one safe and one dangerous call was approved and both calls ran.
C12_Witness ==
  /\ safety
  /\ \E i \in 1..Len(log) :
       /\ log[i].id \in approvals
       /\ Len(log[i].calls) = 2
       /\ \E k \in 1..2 : ~DangerousOrUnknown(log[i].calls[k].name)
       /\ \E k \in 1..2 : DangerousOrUnknown(log[i].calls[k].name)
       /\ \A k \in 1..2 : \E e \in execLog : e.id = log[i].calls[k].id

\* The words of a refusal: "quxiao" (cancel), the word the voice prompt asks
\* for, and the negation "bu" (not).
RejectingWords == {"quxiao", "bu"}

\* A response that is empty, matches neither an approving nor a rejecting word,
\* or matches both.
Ambiguous(response) ==
  LET approving == \E i \in 1..Len(response) : response[i] \in confirm_keywords
      rejecting == \E i \in 1..Len(response) : response[i] \in RejectingWords
  IN  \/ response = <<>>
      \/ ~approving /\ ~rejecting
      \/ approving /\ rejecting

\* C13: an ambiguous response of the host to the voice confirmation (empty,
\* matching neither keyword set, or matching both, such as a negated approving
\* keyword) is treated as a rejection: the batch gets rejection messages and
\* the pending tools are not run.
C13_AmbiguousIsRejection ==
  (heard.asked /\ Ambiguous(heard.response)) => prevStep = "inject"

\* In the current run chatbot replied twice: one safe registered tool call, then
\* a message without tool calls.
OneSafeCallThenText ==
  /\ Len(turnReplies) = 2
  /\ Len(turnReplies[1].calls) = 1
  /\ ~DangerousOrUnknown(turnReplies[1].calls[1].name)
  /\ turnReplies[2].calls = <<>>

\* C14: a turn in which the assistant emits exactly one safe tool call and then
\* a final message without tool calls grows the persisted log by exactly four
\* messages, in the order user, assistant with the call, tool result, final
\* assistant, although the driver re-submits its whole list at the start of the
\* turn; the driver's list is the log afterwards.
C14_SafeToolTurnAddsFour ==
  (prevStep = "finish" /\ turnKind = "user" /\ OneSafeCallThenText) =>
    LET n == Len(turnLog)
    IN  /\ Len(log) = n + 4
        /\ SubSeq(log, 1, n) = turnLog
        /\ log[n + 1].kind = "human"
        /\ log[n + 2] = turnReplies[1]
        /\ log[n + 3].kind = "tool"
        /\ log[n + 3].tcid = turnReplies[1].calls[1].id
        /\ log[n + 4] = turnReplies[2]
        /\ drvMsgs = log

\* Such a turn ended after an earlier turn whose messages were re-submitted.
C14_Witness ==
  /\ prevStep = "finish"
  /\ OneSafeCallThenText
  /\ Len(turnLog) >= 2
  /\ Len(turnMsgs) >= 2

\* C15: running the engine a second time on a terminal thread, with no new user
\* message, is a no-op: the LLM is not called and the log gets no message.
C15_RerunIsNoOp ==
  turnKind = "rerun" => (log = turnLog /\ turnReplies = <<>>)

\* C16: a turn cancelled at a suspension point is surfaced to the driver and
\* leaves no delta: the persisted log and the driver's list are what they were
\* before the turn.
C16_CancelLeavesNoDelta ==
  prevStep = "raise" => (log = turnLog /\ drvMsgs = turnMsgs)

\* A schedule in which call k starts and ends before call k + 1 starts.
Sequential(sched) ==
  \A i \in 1..Len(sched) :
    sched[i] = [ev |-> IF i % 2 = 1 THEN "start" ELSE "end", call |-> (i + 1) \div 2]

\* C17: the tool calls of one batch are executed one at a time in the order the
\* assistant message declares them, no two invocations overlapping, and the
\* tools node emits exactly one Tool message per call in that order.
C17_OneAtATimeInOrder ==
  schedule # <<>> =>
    /\ Sequential(schedule)
    /\ Len(lastToolsOut) * 2 = Len(schedule)
    /\ \A k \in 1..Len(lastToolsOut) :
         lastToolsOut[k].tcid = log[Len(prevLog)].calls[k].id

\* C18: the persisted log never holds two messages with the same id, and the
\* driver's re-submission of the history at the start of a turn neither
\* duplicates nor reorders it: the log is the log before, followed by the new
\* user message.
C18_UniqueIdsNoDuplication ==
  /\ \A i \in 1..Len(log) : \A j \in 1..Len(log) :
       i # j => log[i].id # log[j].id
  /\ prevStep = "input" =>
       /\ Len(log) = Len(prevLog) + 1
       /\ SubSeq(log, 1, Len(prevLog)) = prevLog
       /\ LastMsg.kind = "human"

\* A turn started with a history of a tool round re-submitted.
C18_Witness ==
  /\ prevStep = "input"
  /\ Len(prevLog) >= 4
  /\ Len(drvMsgs) >= 5
  /\ \E i \in 1..Len(prevLog) : prevLog[i].kind = "tool"

\* The role has no entry in LLM_ROLES.
NotConfigured(role) == role \notin ConfigRoles \/ ~llmRoles[role].present

\* The role's provider is ollama without a host, or gemini without an API key.
LacksCredentials(role) ==
  /\ role \in ConfigRoles
  /\ llmRoles[role].present
  /\ \/ llmRoles[role].provider = "ollama" /\ llmRoles[role].host = ""
     \/ llmRoles[role].provider = "gemini" /\ llmRoles[role].api_key = ""

\* C19: LLMFactory.create for a role whose provider lacks credentials, or that
\* is absent from the configuration, yields the same provider, model and
\* endpoint as create for the default role.
C19_FallbackSameAsDefault ==
  (created.role # "none"
     /\ (NotConfigured(created.role) \/ LacksCredentials(created.role))) =>
    LET d == create(llmRoles, "default")
    IN  /\ created.llm.provider = d.provider
        /\ created.llm.model = d.model
        /\ created.llm.endpoint = d.endpoint

\* C20: the interaction mode of the thread's state is the driver's mode, so in
\* voice mode every system prompt chatbot builds is the voice prompt.
C20_ModeIsDriverMode ==
  /\ log # <<>> => stMode = mode
  /\ lastSent # <<>> =>
       /\ lastCall.mode = mode
       /\ lastSent[1].text = get_system_prompt(mode, lastCall.role)

\* The confirmation was required for the latest run call.
ConfirmationRequired ==
  /\ ~lastRun.skip_confirmation
  /\ lastRun.tool.risk_level \in lastRun.before.require_confirmation_for

\* C22: tool.execute is called only with parameters that passed
\* validate_input; when validation fails, run does not call tool.execute, it
\* returns (nothing is raised), and the result is a failed one whose error text
\* is the formatted validation error.
C22_ValidationFailureIsAFailedResult ==
  lastRun.called =>
    /\ lastRun.executed => validate_input(lastRun.tool, lastRun.params)
    /\ (lastRun.validated /\ ~validate_input(lastRun.tool, lastRun.params)) =>
         /\ ~lastRun.executed
         /\ lastRun.returned
         /\ ~lastRun.result.success
         /\ lastRun.result.error = format_validation_error(lastRun.tool)
         /\ lastRun.result.metadata = "validation"

C22_Witness ==
  /\ lastRun.called
  /\ lastRun.validated
  /\ ~validate_input(lastRun.tool, lastRun.params)
  /\ lastRun.returned
  /\ ~lastRun.executed

\* C28: tool.execute is called only if no confirmation is required (the risk
\* level is not in require_confirmation_for, or skip_confirmation is true) or
\* the callback returned APPROVED; after REJECTED and after TIMEOUT the tool is
\* not executed, rejected_confirmations is one higher, and run returns a
\* failed result.
C28_ExecuteOnlyWhenApproved ==
  lastRun.called =>
    /\ lastRun.executed =>
         (~ConfirmationRequired \/ lastRun.callback = "approved")
    /\ (ConfirmationRequired /\ lastRun.callback \in {"rejected", "timeout"}) =>
         /\ ~lastRun.executed
         /\ executor.stats.rejected_confirmations =
              lastRun.before.stats.rejected_confirmations + 1
         /\ lastRun.returned
         /\ ~lastRun.result.success

C28_Witness ==
  /\ lastRun.called
  /\ ConfirmationRequired
  /\ lastRun.callback = "timeout"
  /\ executor.stats.rejected_confirmations = 1
  /\ ~lastRun.executed

\* What the callback or the tool's execute raised during the latest run call
\* ("none": neither raised).
RaisedInRun ==
  IF lastRun.callback \in Raised THEN lastRun.callback
  ELSE IF lastRun.body \in Raised THEN lastRun.body
  ELSE "none"

FailedFromException(exception) ==
  /\ lastRun.returned
  /\ ~lastRun.result.success
  /\ lastRun.result.error =
       format_exception_for_llm(exception, lastRun.tool.name)

\* C29 as stated: whatever the confirmation callback or the tool's execute
\* raises, run returns a failed result whose error text is derived from the
\* exception.
C29_NeverPropagates ==
  (lastRun.called /\ RaisedInRun # "none") => FailedFromException(RaisedInRun)

\* C29 as the code has it: an exception that derives from Exception, raised by
\* the callback or by execute, becomes a failed result whose error text is
\* derived from it and failed_executions is one higher; an exception that
\* derives from BaseException only (KeyboardInterrupt, SystemExit) leaves run.
C29_ExceptionBecomesFailedResult ==
  lastRun.called =>
    /\ RaisedInRun = "Exception" =>
         /\ FailedFromException("Exception")
         /\ executor.stats.failed_executions =
              lastRun.before.stats.failed_executions + 1
    /\ RaisedInRun = "BaseException" => ~lastRun.returned

C29_Witness ==
  /\ lastRun.called
  /\ lastRun.body = "Exception"
  /\ lastRun.executed
  /\ FailedFromException("Exception")

\* C30: register of a tool whose name is in the tool map, with override false,
\* raises ToolRegistrationError and leaves the tool map, the risk index, the
\* tag index and the intent map as they were.
C30_DuplicateRegisterRaisesUnchanged ==
  (/\ lastRegister.op = "register"
   /\ lastRegister.name \in DOMAIN lastRegister.before.tools
   /\ ~lastRegister.override) =>
    /\ lastRegister.raised = "ToolRegistrationError"
    /\ registry.tools = lastRegister.before.tools
    /\ registry.risk_index = lastRegister.before.risk_index
    /\ registry.tag_index = lastRegister.before.tag_index
    /\ registry.intent_map = lastRegister.before.intent_map

\* A different tool of the same name, with intents, was refused.
C30_Witness ==
  /\ lastRegister.op = "register"
  /\ lastRegister.name \in DOMAIN lastRegister.before.tools
  /\ lastRegister.before.tools[lastRegister.name] # lastRegister.tool
  /\ lastRegister.intents # {}
  /\ ~lastRegister.override
  /\ lastRegister.raised = "ToolRegistrationError"

\* The callback answered true during the current speak call.
CallbackAnsweredTrue ==
  \E i \in 1..Len(speech.polls) : speech.polls[i] = "true"

\* C23: speak stops the playback and returns True as soon as the callback
\* answers true, and returns False whenever it returns without the callback
\* having answered true (the playback ended, or it could not start).
C23_TrueOnInterruptFalseOtherwise ==
  /\ speech.pc = "playing" => ~CallbackAnsweredTrue
  /\ (speech.pc = "idle" /\ speech.calls > 0) =>
       IF CallbackAnsweredTrue
       THEN speech.result = "True" /\ ~speech.busy
       ELSE speech.result = "False"

AssistantMessages(messages) == SelectSeq(messages, LAMBDA m : m.kind = "ai")

\* The tool calls of messages[i] are not all answered by the Tool messages
\* that follow it.
NotAllAnswered(messages, i) ==
  /\ HasToolCalls(messages[i])
  /\ LET j == ScanEnd(messages, i + 1, CallIds(messages[i]))
     IN  {messages[k].tcid : k \in (i + 1)..(j - 1)} # CallIds(messages[i])

\* C27: the strict-provider sanitiser removes no assistant message: its output
\* has the assistant messages of its input, one for one and in order, with the
\* same text, and the one that stands for an assistant message whose tool calls
\* are not all answered carries no tool calls.
C27_AssistantMessageNeverRemoved ==
  (prevStep = "chatbot" /\ IsStrictProvider(lastCall.role)) =>
    LET input == Truncate(FilterSystem(prevLog))
        before == AssistantMessages(input)
        after == AssistantMessages(Tail(lastSent))
        unanswered == AssistantMessages(
                        [i \in 1..Len(input) |->
                           IF NotAllAnswered(input, i)
                           THEN [input[i] EXCEPT !.calls = <<>>]
                           ELSE input[i]])
    IN  /\ Len(after) = Len(before)
        /\ \A k \in 1..Len(after) :
             /\ after[k].text = before[k].text
             /\ after[k].calls = unanswered[k].calls

\* C21: when the log has more than MAX_HISTORY non-System messages, the list
\* submitted to the LLM holds, after the system prompt, at most MAX_HISTORY
\* messages, none of them a System message, and does not begin with a Tool
\* message (one whose assistant tool-call message the truncation cut off).
C21_NoLeadingOrphanAfterTruncation ==
  (prevStep = "built" /\ Len(FilterSystem(log)) > MAX_HISTORY_MESSAGES) =>
    LET submitted == Tail(lastSent)
    IN  /\ Len(submitted) <= MAX_HISTORY_MESSAGES
        /\ \A i \in 1..Len(submitted) : submitted[i].kind # "system"
        /\ submitted # <<>> => submitted[1].kind # "tool"

\* C26 as stated: state_updater changes current_role only to the role of a
\* role-switch marker carried by a Tool message among the 3 most recent
\* messages of the log.
C26_SwitchOnlyWithinThree ==
  (prevStep = "updated" /\ stRole # prevRole) =>
    \E i \in 1..Len(log) :
      /\ i > Len(log) - 3
      /\ log[i].kind = "tool"
      /\ log[i].marker = stRole

\* The positions, among the 5 most recent messages of the log, of the messages
\* named switch_role.
SwitchPositions ==
  {i \in 1..Len(log) :
     i > Len(log) - StateUpdaterLookback /\ log[i].name = "switch_role"}

\* C26 as the code has it: state_updater looks at the 5 most recent messages;
\* current_role becomes the role of the marker carried by the most recent
\* message named switch_role among them, when that message carries a marker and
\* the role differs from current_role; in every other case current_role is
\* unchanged.
C26_SwitchWithinFive ==
  prevStep = "updated" =>
    IF SwitchPositions = {} THEN stRole = prevRole
    ELSE LET i == CHOOSE i \in SwitchPositions :
                    \A j \in SwitchPositions : j <= i
             new_role == log[i].marker
         IN  stRole = IF new_role \notin {"none", prevRole} THEN new_role
                      ELSE prevRole

\* The role was switched by a marker that is fourth from the end of the log.
C26_Witness ==
  /\ prevStep = "updated"
  /\ stRole # prevRole
  /\ SwitchPositions = {Len(log) - 3}

\* Where each node leaves the graph.
RoutingAfterNode ==
  /\ prevStep = "chatbot" =>
       next = IF HasToolCalls(LastMsg) THEN "tools" ELSE "end"
  /\ prevStep \in {"tools", "inject"} => (next = "state_updater" /\ running)
  /\ prevStep = "state_updater" => (next = "chatbot" /\ running)

\* The order of the nodes: state_updater runs right after a tools execution or
\* an injected update and at no other point, and chatbot runs only at the
\* start of a run or right after state_updater.
RoutingOrder ==
  /\ prevStep \in {"tools", "inject"} => prevStep' = "state_updater"
  /\ prevStep' = "state_updater" => prevStep \in {"tools", "inject"}
  /\ prevStep' \in {"chatbot", "chatbot_raise"} =>
       prevStep \in {"input", "state_updater"}

C24_TurnReturnsWhenNextEmpty ==
  /\ [](prevStep = "finish" => (next = "end" /\ ~running))
  /\ (drv = "turn") ~> (drv = "idle" /\ prevStep = "finish")

\* A turn returned after a confirmation prompt was answered and a tools
\* execution took place.
C24_Witness ==
  /\ prevStep = "finish"
  /\ drv = "idle"
  /\ approvals # {}
  /\ rejections # {}
  /\ execLog # {}

\* ---------------------------------------------------------------------------
\* Statistics of the executor
\* ---------------------------------------------------------------------------

\* The runs counted under one of the three outcomes.
OutcomeCount(stats) ==
  stats.successful_executions + stats.failed_executions
    + stats.rejected_confirmations

\* C36 as stated: after any sequence of run calls total_executions equals
\* successful_executions + failed_executions + rejected_confirmations.
C36_TotalIsSumOfOutcomes ==
  executor.stats.total_executions = OutcomeCount(executor.stats)

\* C36 amended: every run counts itself in total_executions, and a run that
\* returns counts itself under exactly one outcome; a run left by an exception
\* that is not caught counts under none, so the total is the sum of the
\* outcomes plus the runs that did not return.
C36_ReturnedRunCountsOneOutcome ==
  lastRun.op = "run" =>
    /\ executor.stats.total_executions
         = lastRun.before.stats.total_executions + 1
    /\ OutcomeCount(executor.stats)
         = OutcomeCount(lastRun.before.stats)
             + (IF lastRun.returned THEN 1 ELSE 0)
    /\ executor.stats.successful_executions
         = lastRun.before.stats.successful_executions
             + (IF lastRun.returned /\ lastRun.result.success THEN 1 ELSE 0)
    /\ executor.stats.rejected_confirmations
         = lastRun.before.stats.rejected_confirmations
             + (IF lastRun.returned /\ lastRun.asked
                   /\ lastRun.callback \in {"rejected", "timeout"}
                THEN 1 ELSE 0)

\* Two runs, the second rejected at the confirmation, both counted.
C36_Witness ==
  /\ lastRun.op = "run"
  /\ lastRun.returned
  /\ executor.stats.total_executions = 2
  /\ executor.stats.rejected_confirmations = 1
  /\ OutcomeCount(executor.stats) = 2

\* ---------------------------------------------------------------------------
\* History of the executor
\* ---------------------------------------------------------------------------

C31_GetByRiskReturnsToolsOfLevel ==
  \A level \in RiskLevel :
    get_by_risk(registry, level) =
      {registry.tools[name] :
         name \in {n \in DOMAIN registry.tools :
                     registry.tools[n].risk_level = level}}

\* ---------------------------------------------------------------------------
\* ManagerAgent: the pending dangerous action
\* ---------------------------------------------------------------------------

DangerousNames ==
  {tool.name : tool \in {t \in ManagerTools : t.risk_level = "dangerous"}}

\* A dangerous tool is run only as the pending action of an earlier turn, in a
\* turn whose input was classified as confirmed; the turn that requests it
\* runs nothing.
DangerousOnlyAfterConfirmed ==
  LET turn == manager.last
  IN  /\ turn.ran \in DangerousNames =>
           /\ turn.pending_before # NoPending
           /\ turn.pending_before.tool.name = turn.ran
           /\ turn.pending_before.requested < manager.calls
           /\ turn.classified = "confirmed"
      /\ turn.requested # "none" =>
           /\ turn.ran = "none"
           /\ manager.pending_action.tool.name = turn.requested
           /\ manager.pending_action.requested = manager.calls

\* An input that is not classified as confirmed clears the pending action
\* without running it.
OtherInputClears ==
  LET turn == manager.last
  IN  (turn.pending_before # NoPending /\ turn.user_input # <<>>
         /\ turn.classified # "confirmed") =>
        /\ turn.ran \notin DangerousNames
        /\ manager.pending_action # turn.pending_before

\* C32 as stated: a dangerous tool is never executed in the turn that
\* requested it and only after the next input was classified as confirmed;
\* any other input clears the pending action without executing it; the
\* pending action is always cleared after at most one further call of run.
C32_PendingClearedAfterOneTurn ==
  /\ DangerousOnlyAfterConfirmed
  /\ OtherInputClears
  /\ (manager.last.called /\ manager.last.pending_before # NoPending) =>
       manager.pending_action # manager.last.pending_before

\* C32 amended: as above, the pending action being cleared by the next call
\* of run with a non-empty input that returns; an empty input returns at once
\* and keeps it, and so does a confirmed execution left by an exception that
\* is not caught.
C32_PendingClearedByNextInput ==
  /\ DangerousOnlyAfterConfirmed
  /\ OtherInputClears
  /\ (manager.last.called /\ manager.last.pending_before # NoPending
        /\ manager.last.user_input # <<>> /\ manager.last.returned) =>
       manager.pending_action # manager.last.pending_before
  /\ (manager.last.called /\ manager.last.user_input = <<>>) =>
       /\ manager.pending_action = manager.last.pending_before
       /\ manager.last.ran = "none"

\* The pending shell_execute was run after "yes" and is no longer pending.
C32_Witness ==
  /\ manager.last.pending_before.tool.name = "shell_execute"
  /\ manager.last.classified = "confirmed"
  /\ manager.last.ran = "shell_execute"
  /\ manager.last.executed
  /\ manager.last.returned
  /\ manager.pending_action = NoPending

\* The inputs that equal a rejecting keyword or contain one under the
\* containment rule.
RejectingInput(user_input) ==
  LET normalized == lower(strip(user_input))
  IN  \/ normalized \in CONFIRM_NEGATIVE
      \/ ContainsKeyword(CONFIRM_NEGATIVE, normalized)

\* C33: an input that equals a rejecting keyword, or contains one under the
\* containment rule, is never classified as confirmed, and the pending
\* dangerous action is not run after it.
C33_RejectionNeverConfirms ==
  (manager.last.called /\ manager.last.pending_before # NoPending
     /\ RejectingInput(manager.last.user_input)) =>
    /\ manager.last.classified # "confirmed"
    /\ manager.last.ran = "none"

\* ---------------------------------------------------------------------------
\* The clear command
\* ---------------------------------------------------------------------------

\* The current turn was started for a user message on an empty list of the
\* driver while the thread had messages: the list was cleared before it.
TurnAfterClear ==
  /\ turnKind = "user"
  /\ turnMsgs = <<>>
  /\ turnLog # <<>>

\* The messages of the list that the thread held when the turn began.
FromBeforeTurn(messages) ==
  {i \in 1..Len(messages) :
     /\ messages[i].kind # "system"
     /\ \E j \in 1..Len(turnLog) : turnLog[j].id = messages[i].id}

\* C34: in the turn after a clear, the list the chatbot invocation receives and
\* the history returned to the driver contain no message from before the
\* clear.
C34_NothingFromBeforeClear ==
  TurnAfterClear =>
    /\ prevStep = "chatbot" => FromBeforeTurn(lastSent) = {}
    /\ prevStep = "finish" => FromBeforeTurn(drvMsgs) = {}

\* ---------------------------------------------------------------------------
\* The response text of a turn
\* ---------------------------------------------------------------------------

\* full_response: the texts of the streamed tokens, in order.
ResponseText ==
  [i \in 1..Len(streamed) |-> streamed[i].text]

\* C35: when a turn has finished on a terminal assistant message, the response
\* text returned to the driver is the text of that message.
C35_ResponseIsTerminalAssistantText ==
  (prevStep = "finish" /\ next = "end" /\ log # <<>>
     /\ log[Len(log)].kind = "ai") =>
    ResponseText = <<log[Len(log)].text>>

====
